---- MODULE Spec2Model ----
(***************************************************************************)
(* Model of the taskflow manager + storage layer (src/src/taskflow):       *)
(* projects, tasks and iterations persisted as files under a base          *)
(* directory, and the manager operations that read-modify-write them.      *)
(*                                                                         *)
(* Representation.  Text (titles, notes) is a sequence of one-character    *)
(* strings.  An optional timestamp is <<>> (None) or <<t>>, t the clock    *)
(* second at which datetime.now() was formatted.  A task id is the         *)
(* sequence of decimal digits that f"{n:03d}" produces.                    *)
(***************************************************************************)
EXTENDS Integers, Sequences, FiniteSets, TLC

\* ---------------------------------------------------------------- bounds
MaxOps == 7          \* clock ticks and calls of mutating operations
MaxTasks == 2        \* ids allocated over all projects
MaxIter == 2         \* iterations started per task
MaxTime == 2         \* clock seconds observed
MaxCompleted == 2    \* cap on a project's completed_tasks counter

\* project names callers use; only those of CreateNames are ever created
ProjectNames == {"p1", "p2"}
CreateNames == {"p1"}

None == <<>>
Some(x) == <<x>>

\* ------------------------------------------------------------ enumerations
TaskStatusValues == <<"TODO", "IN_PROGRESS", "DONE", "ARCHIVED">>
ProjectStatusValues == <<"active", "completed", "archived">>
IterationStatusValues == <<"in_progress", "completed", "paused">>

Range(s) == {s[i] : i \in 1..Len(s)}

\* status strings a caller may pass: legal ones and one outside each legal set
TaskStatusInputs == {"TODO", "IN_PROGRESS", "DONE", "BOGUS"}
ProjectStatusInputs == {"archived", "ARCHIVED"}

\* ------------------------------------------------------------ text helpers
Whitespace == {" "}
SlugChars == {"a", "b"}

Lower(c) == CASE c = "A" -> "a" [] c = "B" -> "b" [] OTHER -> c

RECURSIVE LStrip(_, _)
LStrip(s, drop) ==
    IF s # <<>> /\ Head(s) \in drop THEN LStrip(Tail(s), drop) ELSE s

RECURSIVE RStrip(_, _)
RStrip(s, drop) ==
    IF s # <<>> /\ s[Len(s)] \in drop
    THEN RStrip(SubSeq(s, 1, Len(s) - 1), drop) ELSE s

\* str.strip()
Strip(s) == RStrip(LStrip(s, Whitespace), Whitespace)

\* re.sub(r'[^a-z0-9]+', '-', text): every maximal run of other characters
\* becomes one hyphen
RECURSIVE SubRuns(_, _)
SubRuns(s, inRun) ==
    IF s = <<>> THEN <<>>
    ELSE IF Head(s) \in SlugChars THEN <<Head(s)>> \o SubRuns(Tail(s), FALSE)
    ELSE IF inRun THEN SubRuns(Tail(s), TRUE)
    ELSE <<"-">> \o SubRuns(Tail(s), TRUE)

_slugify(text) ==
    LET low == [i \in 1..Len(text) |-> Lower(text[i])]
        sub == SubRuns(low, FALSE)
    IN  RStrip(LStrip(sub, {"-"}), {"-"})

\* ------------------------------------------------------------ number formats
RECURSIVE Digits(_)
Digits(n) == IF n < 10 THEN <<n>> ELSE Append(Digits(n \div 10), n % 10)

RECURSIVE PadLeft(_, _)
PadLeft(s, w) == IF Len(s) >= w THEN s ELSE PadLeft(<<0>> \o s, w)

\* f"{n:03d}"
Fmt03d(n) == PadLeft(Digits(n), 3)

RECURSIVE ParseInt(_)
ParseInt(s) ==
    IF s = <<>> THEN 0 ELSE 10 * ParseInt(SubSeq(s, 1, Len(s) - 1)) + s[Len(s)]

SetMax(S) == CHOOSE x \in S : \A y \in S : y <= x
Max2(a, b) == IF a >= b THEN a ELSE b

\* ------------------------------------------------------------ inputs
NoteTexts == {<<>>, <<"x">>, <<"y">>}
FieldTexts == {<<"s">>}
CreateTitles == {<<"A">>}
UpdateTitles == {<<" ", "B", "!">>, <<" ">>}
TaskIds == {Fmt03d(n) : n \in 1..MaxTasks}

\* projects, tasks, iters : the files under the base directory (see storage)
\* now       : the clock, in seconds
\* allocated : per project, the ids create_task has returned, in call order
\* starts    : per project and task id, the start_task calls that returned
\* ops       : clock ticks and calls of mutating operations so far
VARIABLES projects, tasks, iters, now, allocated, starts, ops
\* entity   : a Task, Iteration or Project object held in memory
\* data     : the dictionary to_dict made of it, once made
\* restored : the object from_dict made of that dictionary, once made
VARIABLES entity, data, restored
codec == <<entity, data, restored>>
\* pc    : per request thread, its position inside create_task
\* frame : per request thread, the local variables of its create_task call
VARIABLES pc, frame
threads == <<pc, frame>>
\* connections : MCPServer.connections, the list of sockets being handled
\* handler     : per socket, where its handle coroutine is
\* bcast       : the frame of the running broadcast (position, the list
\*               iterator's index, dead) and what it has done so far
VARIABLES connections, handler, bcast
sockets == <<connections, handler, bcast>>
\* skeleton : per project name, "made" when a create_project that died before
\*            writing project.json left the directories behind, "cleaned"
\*            once cleanup has removed them, "none" otherwise
VARIABLES skeleton
ext == <<codec, threads, sockets, skeleton>>
vars == <<projects, tasks, iters, now, allocated, starts, ops, ext>>
files == <<projects, tasks, iters>>

\* ------------------------------------------------------------ entity model
Task_started(id, title, project, description, notes) ==
    [id |-> id, title |-> title, project |-> project,
     description |-> description, notes |-> notes, status |-> "TODO",
     created |-> Some(now), started |-> Some(now), completed |-> None,
     current_iteration |-> 0, total_iterations |-> 0]

\* Task(...) with the dataclass defaults; __post_init__ stamps created
Task(id, title, project, description, notes) ==
    [id |-> id, title |-> title, project |-> project,
     description |-> description, notes |-> notes, status |-> "TODO",
     created |-> Some(now), started |-> None, completed |-> None,
     current_iteration |-> 0, total_iterations |-> 0]

start_work_unstamped(task) ==
    IF task.status = "TODO" THEN [task EXCEPT !.status = "IN_PROGRESS"] ELSE task

start_work(task) ==
    IF task.status = "TODO"
    THEN [task EXCEPT !.status = "IN_PROGRESS", !.started = Some(now)]
    ELSE task

complete_work_unstamped(task) ==
    IF task.status = "IN_PROGRESS" THEN [task EXCEPT !.status = "DONE"] ELSE task

complete_work(task) ==
    IF task.status = "IN_PROGRESS"
    THEN [task EXCEPT !.status = "DONE", !.completed = Some(now)]
    ELSE task

Iteration_completed(task_id, iteration) ==
    [task_id |-> task_id, iteration |-> iteration, status |-> "completed",
     started |-> Some(now), completed |-> None, notes |-> <<>>,
     summary |-> <<>>, user_feedback |-> <<>>, next_steps |-> <<>>]

\* Iteration(task_id, iteration) with the dataclass defaults
Iteration(task_id, iteration) ==
    [task_id |-> task_id, iteration |-> iteration, status |-> "in_progress",
     started |-> Some(now), completed |-> None, notes |-> <<>>,
     summary |-> <<>>, user_feedback |-> <<>>, next_steps |-> <<>>]

complete_guarded(it) ==
    IF it.status = "completed" THEN it
    ELSE [it EXCEPT !.status = "completed", !.completed = Some(now)]

\* Iteration.complete
complete(it) == [it EXCEPT !.status = "completed", !.completed = Some(now)]

add_note_replace(it, note) == [it EXCEPT !.notes = note]

\* Iteration.add_note
add_note(it, note) ==
    IF it.notes # <<>>
    THEN [it EXCEPT !.notes = @ \o <<"\n">> \o note]
    ELSE [it EXCEPT !.notes = note]

\* Project(name, description) with the dataclass defaults
Project(name, description) ==
    [name |-> name, description |-> description, status |-> "active",
     created |-> Some(now), next_task_id |-> 1, total_tasks |-> 0,
     completed_tasks |-> 0]

get_next_task_id_stuck(project) ==
    [id |-> Fmt03d(project.next_task_id),
     project |-> [project EXCEPT !.total_tasks = @ + 1]]

\* returns the id and the project with both counters advanced
get_next_task_id(project) ==
    [id |-> Fmt03d(project.next_task_id),
     project |-> [project EXCEPT !.next_task_id = @ + 1,
                                 !.total_tasks = @ + 1]]

mark_task_completed(project) == [project EXCEPT !.completed_tasks = @ + 1]

\* ------------------------------------------------------- serialization
\* An enumeration is the set of its members, each with its name and value.
\* In memory an object's status is a member; in a dictionary it is the
\* member's value, a string, so from_dict always looks the member up.
TaskStatus ==
    {[name |-> "TODO", value |-> "TODO"],
     [name |-> "IN_PROGRESS", value |-> "IN_PROGRESS"],
     [name |-> "DONE", value |-> "DONE"],
     [name |-> "ARCHIVED", value |-> "ARCHIVED"]}

ProjectStatus ==
    {[name |-> "ACTIVE", value |-> "active"],
     [name |-> "COMPLETED", value |-> "completed"],
     [name |-> "ARCHIVED", value |-> "archived"]}

IterationStatus ==
    {[name |-> "IN_PROGRESS", value |-> "in_progress"],
     [name |-> "COMPLETED", value |-> "completed"],
     [name |-> "PAUSED", value |-> "paused"]}

\* Enum(value): the member with that value
EnumLookup(enum, value) == CHOOSE m \in enum : m.value = value

\* __post_init__ of the three dataclasses: stamp the timestamp that is None.
\* The status it receives here is the member from_dict looked up, so the
\* isinstance(status, str) branch is not taken.
Task__post_init__(self) ==
    [self EXCEPT
        !.created = IF @ = None THEN Some(now) ELSE @]

Iteration__post_init__(self) ==
    [self EXCEPT
        !.started = IF @ = None THEN Some(now) ELSE @]

Project__post_init__(self) ==
    [self EXCEPT
        !.created = IF @ = None THEN Some(now) ELSE @]

Task_to_dict_no_completed(self) ==
    [id |-> self.id, title |-> self.title, status |-> self.status.value,
     created |-> self.created, started |-> self.started,
     completed |-> None, project |-> self.project,
     description |-> self.description, notes |-> self.notes,
     current_iteration |-> self.current_iteration,
     total_iterations |-> self.total_iterations]

Task_to_dict(self) ==
    [id |-> self.id, title |-> self.title, status |-> self.status.value,
     created |-> self.created, started |-> self.started,
     completed |-> self.completed, project |-> self.project,
     description |-> self.description, notes |-> self.notes,
     current_iteration |-> self.current_iteration,
     total_iterations |-> self.total_iterations]

Task_from_dict(d) ==
    LET status == EnumLookup(TaskStatus, d.status)
    IN  Task__post_init__(
            [id |-> d.id, title |-> d.title, project |-> d.project,
             description |-> d.description, notes |-> d.notes,
             status |-> status, created |-> d.created,
             started |-> d.started, completed |-> d.completed,
             current_iteration |-> d.current_iteration,
             total_iterations |-> d.total_iterations])

Iteration_to_dict(self) ==
    [task_id |-> self.task_id, iteration |-> self.iteration,
     started |-> self.started, completed |-> self.completed,
     status |-> self.status.value, notes |-> self.notes,
     summary |-> self.summary, user_feedback |-> self.user_feedback,
     next_steps |-> self.next_steps]

Iteration_from_dict(d) ==
    LET status == EnumLookup(IterationStatus, d.status)
    IN  Iteration__post_init__(
            [task_id |-> d.task_id, iteration |-> d.iteration,
             status |-> status, started |-> d.started,
             completed |-> d.completed, notes |-> d.notes,
             summary |-> d.summary, user_feedback |-> d.user_feedback,
             next_steps |-> d.next_steps])

Project_to_dict(self) ==
    [name |-> self.name, created |-> self.created,
     status |-> self.status.value, description |-> self.description,
     next_task_id |-> self.next_task_id, total_tasks |-> self.total_tasks,
     completed_tasks |-> self.completed_tasks]

Project_from_dict(d) ==
    LET status == EnumLookup(ProjectStatus, d.status)
    IN  Project__post_init__(
            [name |-> d.name, description |-> d.description,
             status |-> status, created |-> d.created,
             next_task_id |-> d.next_task_id, total_tasks |-> d.total_tasks,
             completed_tasks |-> d.completed_tasks])

\* the objects the program can hold: a constructed Task or Project has a
\* created stamp and a constructed Iteration a started stamp; the other
\* timestamps are None or a stamp
Stamps == {Some(t) : t \in 0..MaxTime}
OptionalStamps == {None} \cup Stamps

TaskObjects ==
    [id : TaskIds, title : CreateTitles, project : CreateNames,
     description : FieldTexts, notes : {<<>>}, status : TaskStatus,
     created : Stamps, started : OptionalStamps, completed : OptionalStamps,
     current_iteration : 0..MaxIter, total_iterations : {MaxIter}]

IterationObjects ==
    [task_id : TaskIds, iteration : 1..MaxIter, status : IterationStatus,
     started : Stamps, completed : OptionalStamps, notes : NoteTexts,
     summary : FieldTexts, user_feedback : {<<>>}, next_steps : {<<>>}]

ProjectObjects ==
    [name : CreateNames, description : FieldTexts, status : ProjectStatus,
     created : Stamps, next_task_id : 1..(MaxTasks + 1),
     total_tasks : 0..MaxTasks, completed_tasks : 0..MaxCompleted]

\* ------------------------------------------------------------ storage layer
\* projects[p]  : <<>> when {base}/p/project.json is absent, else <<content>>,
\*                the content being a Project or Unparseable
\* tasks[p]     : the task files of {base}/p/tasks, each
\*                [name |-> <<id, slug>>, data |-> Task].  The sequence keeps
\*                files grouped by id; inside a group the order is the order
\*                in which glob enumerates them, which the file system fixes
\*                when the entry is created.
\* iters[p]     : the iteration files, [name |-> <<task_id, NNN>>, data |-> Iteration]

project_exists(p) == projects[p] # <<>>

\* the content of a project.json that open(..., 'w') has truncated and
\* json.dump has not yet filled: json.load raises JSONDecodeError on it
Unparseable == [JSONDecodeError |-> TRUE]

\* None when the file is absent, or when json.load or from_dict raises
load_project(p) ==
    IF projects[p] = <<>> THEN None
    ELSE IF "name" \notin DOMAIN projects[p][1] THEN None
    ELSE projects[p]

\* the names listed: the directories holding a project.json
list_projects == {p \in ProjectNames : projects[p] # <<>>}

save_project(project) == [projects EXCEPT ![project.name] = <<project>>]

TaskFileName(task) == <<task.id, _slugify(task.title)>>

\* glob(f"{task_id}-*.yaml"): ids are digit strings, so the pattern matches
\* exactly the files whose id part equals task_id
GlobTask(p, task_id) ==
    SelectSeq(tasks[p], LAMBDA f : f.name[1] = task_id)

\* positions at which a new directory entry of this id may be enumerated
InsertPositions(dir, id) ==
    {i \in 1..(Len(dir) + 1) :
        /\ \A j \in 1..(i - 1) : ParseInt(dir[j].name[1]) <= ParseInt(id)
        /\ \A j \in i..Len(dir) : ParseInt(dir[j].name[1]) >= ParseInt(id)}

InsertAt(dir, i, f) ==
    SubSeq(dir, 1, i - 1) \o <<f>> \o SubSeq(dir, i, Len(dir))

\* the directories that writing task to its file can leave: an existing file
\* of that name is overwritten in place, a new one is a new entry
save_task(dir, task) ==
    LET name == TaskFileName(task)
        f == [name |-> name, data |-> task]
    IN  IF \E i \in 1..Len(dir) : dir[i].name = name
        THEN {[i \in 1..Len(dir) |-> IF dir[i].name = name THEN f ELSE dir[i]]}
        ELSE {InsertAt(dir, i, f) : i \in InsertPositions(dir, task.id)}

\* first globbed file whose id field equals task_id; <<>> when there is none
load_task(p, task_id) ==
    LET cand == SelectSeq(GlobTask(p, task_id), LAMBDA f : f.data.id = task_id)
    IN  IF cand = <<>> THEN <<>> ELSE <<cand[1].data>>

\* a < b for strings of digits, in the order sorted() gives str values
RECURSIVE StrLess(_, _)
StrLess(a, b) ==
    IF b = <<>> THEN FALSE
    ELSE IF a = <<>> THEN TRUE
    ELSE IF Head(a) # Head(b) THEN Head(a) < Head(b)
    ELSE StrLess(Tail(a), Tail(b))

\* sorted(ids)
RECURSIVE Sorted(_)
Sorted(ids) ==
    IF ids = <<>> THEN <<>>
    ELSE LET rest == Sorted(Tail(ids))
             k == Cardinality({i \in 1..Len(rest) : StrLess(rest[i], Head(ids))})
         IN  SubSeq(rest, 1, k) \o <<Head(ids)>> \o SubSeq(rest, k + 1, Len(rest))

\* storage.list_tasks: the id part (text before the first hyphen) of every
\* file *-*.yaml, sorted.  Iteration files {id}.iterNNN.yaml carry no hyphen
\* and are kept apart in iters[p], so the glob never yields one.
list_tasks(p) ==
    Sorted([i \in 1..Len(tasks[p]) |-> tasks[p][i].name[1]])

IterFileName(it) == <<it.task_id, Fmt03d(it.iteration)>>

save_iteration(dir, it) ==
    {f \in dir : f.name # IterFileName(it)}
        \cup {[name |-> IterFileName(it), data |-> it]}

load_iteration(p, task_id, n) ==
    LET hit == {f \in iters[p] : f.name = <<task_id, Fmt03d(n)>>}
    IN  IF hit = {} THEN <<>> ELSE <<(CHOOSE f \in hit : TRUE).data>>

\* the numbers parsed from the names of the files {task_id}.iter*.yaml
list_iterations(p, task_id) ==
    {ParseInt(f.name[2]) : f \in {g \in iters[p] : g.name[1] = task_id}}

get_next_iteration_number_restart(p, task_id) == 1

get_next_iteration_number(p, task_id) ==
    IF list_iterations(p, task_id) = {} THEN 1
    ELSE SetMax(list_iterations(p, task_id)) + 1

get_current_iteration_first(p, task_id) ==
    IF list_iterations(p, task_id) = {} THEN <<>>
    ELSE load_iteration(p, task_id,
                        CHOOSE n \in list_iterations(p, task_id) :
                            \A m \in list_iterations(p, task_id) : n <= m)

get_current_iteration(p, task_id) ==
    IF list_iterations(p, task_id) = {} THEN <<>>
    ELSE load_iteration(p, task_id, SetMax(list_iterations(p, task_id)))


\* ------------------------------------------------------------ manager
\* What a call raises: "ok" when it returns normally, else the exception class;
\* detail is the list of legal values an invalid-status message carries.
\* Every operation raises before it writes anything, so a call that raises is
\* no step of the system: each action below is a call that returns normally.
NoError == [err |-> "ok", detail |-> <<>>]
Error(kind) == [err |-> kind, detail |-> <<>>]

\* a call of a mutating operation counts against MaxOps
Called == ops < MaxOps

\* its normal return
Returns ==
    /\ ops' = ops + 1
    /\ UNCHANGED <<now, ext>>


RECURSIVE SumOver(_, _)
SumOver(S, f) ==
    IF S = {} THEN 0
    ELSE LET x == CHOOSE y \in S : TRUE IN f[x] + SumOver(S \ {x}, f)

\* ids allocated so far, over all projects
AllocatedTotal ==
    SumOver(ProjectNames, [p \in ProjectNames |-> Len(allocated[p])])

\* an empty base directory, no call made yet
InitStore ==
    /\ projects = [p \in ProjectNames |-> <<>>]
    /\ tasks = [p \in ProjectNames |-> <<>>]
    /\ iters = [p \in ProjectNames |-> {}]
    /\ now = 1
    /\ allocated = [p \in ProjectNames |-> <<>>]
    /\ starts = [p \in ProjectNames |-> [t \in TaskIds |-> 0]]
    /\ ops = 0

\* no object under serialization
NoCodec ==
    /\ entity = <<>>
    /\ data = <<>>
    /\ restored = <<>>

\* the HTTP server's request threads, none inside a call
Threads == {"r1", "r2"}

NoThreads ==
    /\ pc = [r \in Threads |-> "idle"]
    /\ frame = [r \in Threads |-> <<>>]

\* the sockets that ever connect
Sockets == {"a", "b", "c"}

\* a broadcast frame before the loop: nothing iterated, dead = []
NoBroadcast ==
    [pc |-> "idle", i |-> 0, ws |-> "", dead |-> <<>>, before |-> {},
     tried |-> {}, succeeded |-> {}, failed |-> {}]

\* no socket connected yet, no broadcast running
NoSockets ==
    /\ connections = <<>>
    /\ handler = [ws \in Sockets |-> "new"]
    /\ bcast = NoBroadcast

\* no directory without files
NoSkeleton == skeleton = [p \in ProjectNames |-> "none"]

Init ==
    /\ InitStore
    /\ NoCodec
    /\ NoThreads
    /\ NoSockets
    /\ NoSkeleton

\* time passes between operations
Tick ==
    /\ Called
    /\ now < MaxTime
    /\ now' = now + 1
    /\ ops' = ops + 1
    /\ UNCHANGED <<projects, tasks, iters, allocated, starts, ext>>

\* ---- projects
create_project_raises_never(p) == NoError

create_project_raises(p) ==
    IF project_exists(p) THEN Error("TaskManagerError") ELSE NoError

create_project(p) ==
    /\ Called
    /\ create_project_raises(p).err = "ok"
    /\ projects' = save_project(Project(p, <<>>))
    /\ UNCHANGED <<tasks, iters, allocated, starts>>
    /\ Returns

get_project_raises(p) ==
    IF load_project(p) = <<>> THEN Error("ProjectNotFound") ELSE NoError

get_project(p) ==
    /\ get_project_raises(p).err = "ok"
    /\ UNCHANGED vars

\* the process is killed inside save_project, after open(project_file, 'w')
\* and before json.dump has written: the file is left present and empty
create_project_killed(p) ==
    /\ Called
    /\ create_project_raises(p).err = "ok"
    /\ projects' = [projects EXCEPT ![p] = <<Unparseable>>]
    /\ ops' = ops + 1
    /\ UNCHANGED <<tasks, iters, now, allocated, starts, ext>>

set_project_status_raises(p, status) ==
    IF get_project_raises(p).err # "ok" THEN get_project_raises(p)
    ELSE IF status \notin Range(ProjectStatusValues)
    THEN [err |-> "TaskManagerError", detail |-> ProjectStatusValues]
    ELSE NoError

set_project_status_recreates(p, status) ==
    /\ Called
    /\ set_project_status_raises(p, status).err = "ok"
    /\ projects' = save_project([load_project(p)[1] EXCEPT
                                   !.status = status,
                                   !.next_task_id = 1,
                                   !.total_tasks = 0])
    /\ UNCHANGED <<tasks, iters, allocated, starts>>
    /\ Returns

set_project_status(p, status) ==
    /\ Called
    /\ set_project_status_raises(p, status).err = "ok"
    /\ projects' = save_project([load_project(p)[1] EXCEPT !.status = status])
    /\ UNCHANGED <<tasks, iters, allocated, starts>>
    /\ Returns

\* ---- tasks
create_task_raises(p) == get_project_raises(p)

create_task(p, title) ==
    /\ Called
    /\ create_task_raises(p).err = "ok"
    /\ LET alloc == get_next_task_id(load_project(p)[1])
           task == Task(alloc.id, title, p, <<>>, <<>>)
       IN  /\ AllocatedTotal < MaxTasks
           /\ projects' = save_project(alloc.project)
           /\ \E dir \in save_task(tasks[p], task) :
                  tasks' = [tasks EXCEPT ![p] = dir]
           /\ allocated' = [allocated EXCEPT ![p] = Append(@, alloc.id)]
           /\ UNCHANGED starts
           /\ UNCHANGED iters
           /\ Returns

\* create_task as the steps of one request thread r.  The file system makes
\* each read and each write of a file one step; save_project is two, the
\* open(..., 'w') that truncates and the json.dump that fills.
create_task_get_project(r, p, title) ==
    /\ Called
    /\ pc[r] = "idle"
    /\ get_project_raises(p).err = "ok"
    /\ frame' = [frame EXCEPT ![r] = [project_name |-> p, title |-> title,
                                     read |-> load_project(p)[1],
                                     project |-> load_project(p)[1],
                                     task_id |-> <<>>]]
    /\ pc' = [pc EXCEPT ![r] = "get_next_task_id"]
    /\ ops' = ops + 1
    /\ UNCHANGED <<files, now, allocated, starts, codec, sockets, skeleton>>

create_task_writes_reread(r) ==
    IF load_project(frame[r].project_name) = None
    THEN get_next_task_id(frame[r].project)
    ELSE get_next_task_id(load_project(frame[r].project_name)[1])

\* project.get_next_task_id() on the object the thread loaded
create_task_writes(r) == get_next_task_id(frame[r].project)

create_task_open_project(r) ==
    /\ pc[r] = "get_next_task_id"
    /\ frame' = [frame EXCEPT ![r].task_id = create_task_writes(r).id,
                              ![r].project = create_task_writes(r).project]
    /\ projects' = [projects EXCEPT ![frame[r].project_name] = <<Unparseable>>]
    /\ pc' = [pc EXCEPT ![r] = "json.dump"]
    /\ UNCHANGED <<tasks, iters, now, allocated, starts, ops, codec, sockets, skeleton>>

create_task_dump_project_stale(r) ==
    /\ pc[r] = "json.dump"
    /\ projects' = save_project(frame[r].read)
    /\ pc' = [pc EXCEPT ![r] = "save_task"]
    /\ UNCHANGED <<tasks, iters, now, allocated, starts, ops, codec, sockets, skeleton, frame>>

create_task_dump_project(r) ==
    /\ pc[r] = "json.dump"
    /\ projects' = save_project(frame[r].project)
    /\ pc' = [pc EXCEPT ![r] = "save_task"]
    /\ UNCHANGED <<tasks, iters, now, allocated, starts, ops, codec, sockets, skeleton, frame>>

create_task_save_task(r) ==
    /\ pc[r] = "save_task"
    /\ LET p == frame[r].project_name
           task == Task(frame[r].task_id, frame[r].title, p, <<>>, <<>>)
       IN  /\ \E dir \in save_task(tasks[p], task) :
                  tasks' = [tasks EXCEPT ![p] = dir]
           /\ allocated' = [allocated EXCEPT ![p] = Append(@, frame[r].task_id)]
    /\ pc' = [pc EXCEPT ![r] = "returned"]
    /\ UNCHANGED <<projects, iters, now, starts, ops, codec, sockets, skeleton, frame>>

get_task_raises_task_first(p, t) ==
    IF load_task(p, t) = <<>> THEN Error("TaskNotFound")
    ELSE IF ~project_exists(p) THEN Error("ProjectNotFound")
    ELSE NoError

get_task_raises(p, t) ==
    IF ~project_exists(p) THEN Error("ProjectNotFound")
    ELSE IF load_task(p, t) = <<>> THEN Error("TaskNotFound")
    ELSE NoError

\* get_task and the other reads write nothing
get_task(p, t) ==
    /\ get_task_raises(p, t).err = "ok"
    /\ UNCHANGED vars

list_tasks_raises(p) ==
    IF ~project_exists(p) THEN Error("ProjectNotFound") ELSE NoError

ListTasks(p) ==
    /\ list_tasks_raises(p).err = "ok"
    /\ UNCHANGED vars

set_task_status_raises_unvalidated(p, t, status) == get_task_raises(p, t)

set_task_status_raises(p, t, status) ==
    IF get_task_raises(p, t).err # "ok" THEN get_task_raises(p, t)
    ELSE IF status \notin Range(TaskStatusValues)
    THEN [err |-> "TaskManagerError", detail |-> TaskStatusValues]
    ELSE NoError

set_task_status_writes_restamp(p, t, status) ==
    LET task == load_task(p, t)[1] IN
    /\ IF status = "IN_PROGRESS"
       THEN /\ \E dir \in save_task(tasks[p], [task EXCEPT !.status = "IN_PROGRESS",
                                                           !.started = Some(now)]) :
                    tasks' = [tasks EXCEPT ![p] = dir]
            /\ UNCHANGED projects
       ELSE IF status = "DONE" /\ task.completed = None
       THEN /\ load_project(p)[1].completed_tasks < MaxCompleted
            /\ projects' = save_project(mark_task_completed(load_project(p)[1]))
            /\ \E dir \in save_task(tasks[p], complete_work(task)) :
                    tasks' = [tasks EXCEPT ![p] = dir]
       ELSE /\ \E dir \in save_task(tasks[p], [task EXCEPT !.status = status]) :
                    tasks' = [tasks EXCEPT ![p] = dir]
            /\ UNCHANGED projects
    /\ UNCHANGED <<iters, allocated, starts>>

set_task_status_writes_clears(p, t, status) ==
    LET task == load_task(p, t)[1] IN
    /\ IF status = "IN_PROGRESS" /\ task.started = None
       THEN /\ \E dir \in save_task(tasks[p], start_work(task)) :
                    tasks' = [tasks EXCEPT ![p] = dir]
            /\ UNCHANGED projects
       ELSE IF status = "DONE" /\ task.completed = None
       THEN /\ load_project(p)[1].completed_tasks < MaxCompleted
            /\ projects' = save_project(mark_task_completed(load_project(p)[1]))
            /\ \E dir \in save_task(tasks[p], complete_work(task)) :
                    tasks' = [tasks EXCEPT ![p] = dir]
       ELSE /\ \E dir \in save_task(tasks[p], [task EXCEPT !.status = status,
                                                           !.completed = None]) :
                    tasks' = [tasks EXCEPT ![p] = dir]
            /\ UNCHANGED projects
    /\ UNCHANGED <<iters, allocated, starts>>

\* the task and project files set_task_status writes once the status is valid
set_task_status_writes(p, t, status) ==
    LET task == load_task(p, t)[1] IN
    /\ IF status = "IN_PROGRESS" /\ task.started = None
       THEN /\ \E dir \in save_task(tasks[p], start_work(task)) :
                    tasks' = [tasks EXCEPT ![p] = dir]
            /\ UNCHANGED projects
       ELSE IF status = "DONE" /\ task.completed = None
       THEN /\ load_project(p)[1].completed_tasks < MaxCompleted
            /\ projects' = save_project(mark_task_completed(load_project(p)[1]))
            /\ \E dir \in save_task(tasks[p], complete_work(task)) :
                    tasks' = [tasks EXCEPT ![p] = dir]
       ELSE /\ \E dir \in save_task(tasks[p], [task EXCEPT !.status = status]) :
                    tasks' = [tasks EXCEPT ![p] = dir]
            /\ UNCHANGED projects
    /\ UNCHANGED <<iters, allocated, starts>>

set_task_status(p, t, status) ==
    /\ Called
    /\ set_task_status_raises(p, t, status).err = "ok"
    /\ set_task_status_writes(p, t, status)
    /\ Returns

start_task_raises(p, t) == get_task_raises(p, t)

start_task_keeps_counters(p, t) ==
    /\ Called
    /\ start_task_raises(p, t).err = "ok"
    /\ LET task0 == load_task(p, t)[1]
           started == IF task0.status = "TODO" THEN start_work(task0) ELSE task0
           num == get_next_iteration_number(p, t)
       IN  /\ num <= MaxIter
           /\ \E d1 \in save_task(tasks[p], started) :
                  tasks' = [tasks EXCEPT ![p] = d1]
           /\ iters' = [iters EXCEPT ![p] = save_iteration(@, Iteration(t, num))]
           /\ starts' = [starts EXCEPT ![p][t] = @ + 1]
           /\ UNCHANGED <<projects, allocated>>
           /\ Returns

start_task(p, t) ==
    /\ Called
    /\ start_task_raises(p, t).err = "ok"
    /\ LET task0 == load_task(p, t)[1]
           started == IF task0.status = "TODO" THEN start_work(task0) ELSE task0
           num == get_next_iteration_number(p, t)
           task1 == [started EXCEPT
                       !.current_iteration = num,
                       !.total_iterations = Max2(@, num)]
       IN  /\ num <= MaxIter
           /\ \E d1 \in (IF task0.status = "TODO"
                         THEN save_task(tasks[p], started) ELSE {tasks[p]}) :
                  \E d2 \in save_task(d1, task1) :
                      tasks' = [tasks EXCEPT ![p] = d2]
           /\ iters' = [iters EXCEPT ![p] = save_iteration(@, Iteration(t, num))]
           /\ starts' = [starts EXCEPT ![p][t] = @ + 1]
           /\ UNCHANGED <<projects, allocated>>
           /\ Returns

complete_task_raises(p, t) == get_task_raises(p, t)

\* the guard under which complete_task completes the task and counts it
complete_task_counts(p, t) == load_task(p, t)[1].status # "DONE"

complete_task(p, t) ==
    /\ Called
    /\ complete_task_raises(p, t).err = "ok"
    /\ LET task == load_task(p, t)[1]
           cur == get_current_iteration(p, t)
       IN  /\ IF cur # <<>> /\ cur[1].status # "completed"
              THEN iters' = [iters EXCEPT ![p] = save_iteration(@, complete(cur[1]))]
              ELSE UNCHANGED iters
           /\ IF complete_task_counts(p, t)
              THEN /\ load_project(p)[1].completed_tasks < MaxCompleted
                   /\ \E dir \in save_task(tasks[p], complete_work(task)) :
                          tasks' = [tasks EXCEPT ![p] = dir]
                   /\ projects' = save_project(mark_task_completed(load_project(p)[1]))
              ELSE UNCHANGED <<tasks, projects>>
           /\ UNCHANGED <<allocated, starts>>
           /\ Returns

\* ---- iterations
list_iterations_raises(p, t) == get_task_raises(p, t)

ListIterations(p, t) ==
    /\ list_iterations_raises(p, t).err = "ok"
    /\ UNCHANGED vars

get_task_details_raises(p, t) == get_task_raises(p, t)

get_task_details(p, t) ==
    /\ get_task_details_raises(p, t).err = "ok"
    /\ UNCHANGED vars

complete_iteration_raises(p, t) ==
    IF get_current_iteration(p, t) = <<>> THEN Error("IterationNotFound") ELSE NoError

complete_iteration(p, t) ==
    /\ Called
    /\ complete_iteration_raises(p, t).err = "ok"
    /\ iters' = [iters EXCEPT
                   ![p] = save_iteration(@, complete(get_current_iteration(p, t)[1]))]
    /\ UNCHANGED <<projects, tasks, allocated, starts>>
    /\ Returns

add_iteration_note_raises_task_checked(p, t) ==
    IF get_task_raises(p, t).err # "ok" THEN get_task_raises(p, t)
    ELSE IF get_current_iteration(p, t) = <<>> THEN Error("IterationNotFound")
    ELSE NoError

add_iteration_note_raises(p, t) ==
    IF get_current_iteration(p, t) = <<>> THEN Error("IterationNotFound") ELSE NoError

add_iteration_note(p, t, note) ==
    /\ Called
    /\ add_iteration_note_raises(p, t).err = "ok"
    /\ iters' = [iters EXCEPT
                    ![p] = save_iteration(@, add_note(get_current_iteration(p, t)[1], note))]
    /\ UNCHANGED <<projects, tasks, allocated, starts>>
    /\ Returns

set_iteration_summary_raises(p, t) ==
    IF get_current_iteration(p, t) = <<>> THEN Error("IterationNotFound") ELSE NoError

set_iteration_summary_appends(p, t, summary) ==
    /\ Called
    /\ set_iteration_summary_raises(p, t).err = "ok"
    /\ iters' = [iters EXCEPT
                    ![p] = save_iteration(@, [get_current_iteration(p, t)[1]
                                                EXCEPT !.summary = @ \o summary])]
    /\ UNCHANGED <<projects, tasks, allocated, starts>>
    /\ Returns

set_iteration_summary(p, t, summary) ==
    /\ Called
    /\ set_iteration_summary_raises(p, t).err = "ok"
    /\ iters' = [iters EXCEPT
                    ![p] = save_iteration(@, [get_current_iteration(p, t)[1]
                                                EXCEPT !.summary = summary])]
    /\ UNCHANGED <<projects, tasks, allocated, starts>>
    /\ Returns

add_user_feedback_raises(p, t) ==
    IF get_current_iteration(p, t) = <<>> THEN Error("IterationNotFound") ELSE NoError

add_user_feedback(p, t, feedback) ==
    /\ Called
    /\ add_user_feedback_raises(p, t).err = "ok"
    /\ iters' = [iters EXCEPT
                    ![p] = save_iteration(@, [get_current_iteration(p, t)[1]
                                                EXCEPT !.user_feedback = feedback])]
    /\ UNCHANGED <<projects, tasks, allocated, starts>>
    /\ Returns

set_next_steps_raises(p, t) ==
    IF get_current_iteration(p, t) = <<>> THEN Error("IterationNotFound") ELSE NoError

set_next_steps(p, t, next_steps) ==
    /\ Called
    /\ set_next_steps_raises(p, t).err = "ok"
    /\ iters' = [iters EXCEPT
                    ![p] = save_iteration(@, [get_current_iteration(p, t)[1]
                                                EXCEPT !.next_steps = next_steps])]
    /\ UNCHANGED <<projects, tasks, allocated, starts>>
    /\ Returns

\* ---- callers outside the manager
\* server.update_task with a payload that carries only a title
update_task_raises(p, t) == get_task_raises(p, t)

update_task(p, t, title) ==
    /\ Called
    /\ update_task_raises(p, t).err = "ok"
    /\ IF Strip(title) # <<>>
       THEN \E dir \in save_task(tasks[p],
                                 [load_task(p, t)[1] EXCEPT !.title = Strip(title)]) :
               tasks' = [tasks EXCEPT ![p] = dir]
       ELSE UNCHANGED tasks
    /\ UNCHANGED <<projects, iters, allocated, starts>>
    /\ Returns

_delete_task_keeps_iterations(p, t) ==
    /\ Called
    /\ tasks' = [tasks EXCEPT ![p] = SelectSeq(@, LAMBDA f : f.name[1] # t)]
    /\ UNCHANGED <<projects, iters, allocated, starts>>
    /\ Returns

\* MCPServer._delete_task: unlink {task_id}-*.yaml and {task_id}.iter*.yaml
_delete_task(p, t) ==
    /\ Called
    /\ tasks' = [tasks EXCEPT ![p] = SelectSeq(@, LAMBDA f : f.name[1] # t)]
    /\ iters' = [iters EXCEPT ![p] = {f \in @ : f.name[1] # t}]
    /\ UNCHANGED <<projects, allocated, starts>>
    /\ Returns

Next ==
    \/ Tick
    \/ \E p \in CreateNames : create_project(p)
    \/ \E p \in ProjectNames, s \in ProjectStatusInputs : set_project_status(p, s)
    \/ \E p \in ProjectNames, title \in CreateTitles : create_task(p, title)
    \/ \E p \in ProjectNames, t \in TaskIds : get_task(p, t)
    \/ \E p \in ProjectNames : ListTasks(p)
    \/ \E p \in ProjectNames, t \in TaskIds, s \in TaskStatusInputs :
            set_task_status(p, t, s)
    \/ \E p \in ProjectNames, t \in TaskIds : start_task(p, t)
    \/ \E p \in ProjectNames, t \in TaskIds : complete_task(p, t)
    \/ \E p \in ProjectNames, t \in TaskIds : ListIterations(p, t)
    \/ \E p \in ProjectNames, t \in TaskIds : get_task_details(p, t)
    \/ \E p \in ProjectNames, t \in TaskIds : complete_iteration(p, t)
    \/ \E p \in ProjectNames, t \in TaskIds, title \in UpdateTitles :
            update_task(p, t, title)
    \/ \E p \in ProjectNames, t \in TaskIds : _delete_task(p, t)

Spec == Init /\ [][Next]_vars

\* ----------------------------------------------------------------- cleanup
\* the process is killed in create_project after create_project_directory
\* and before save_project opens project.json: the project directory and its
\* tasks directory exist and hold no file
create_project_killed_mkdir(p) ==
    /\ Called
    /\ create_project_raises(p).err = "ok"
    /\ skeleton[p] # "made"
    /\ skeleton' = [skeleton EXCEPT ![p] = "made"]
    /\ ops' = ops + 1
    /\ UNCHANGED <<files, now, allocated, starts, codec, threads, sockets>>

\* {base}/p is a directory
project_dir_exists(p) ==
    \/ projects[p] # <<>>
    \/ tasks[p] # <<>>
    \/ iters[p] # {}
    \/ skeleton[p] = "made"

has_content_always(p) == TRUE

\* some item of project_dir.rglob("*") is a regular file
has_content(p) ==
    \/ projects[p] # <<>>
    \/ tasks[p] # <<>>
    \/ iters[p] # {}

\* cleanup_empty_directories: rmdir, bottom-up, of the project directories
\* without content; no file is opened, written or unlinked.  (rmdir is not
\* refused here: the process owns the directories it made.)
cleanup ==
    /\ Called
    /\ skeleton' = [p \in ProjectNames |->
                       IF project_dir_exists(p) /\ ~has_content(p)
                       THEN "cleaned" ELSE skeleton[p]]
    /\ ops' = ops + 1
    /\ UNCHANGED <<files, now, allocated, starts, codec, threads, sockets>>

\* --------------------------------------------------------------- HTTP layer
\* The endpoints of server.py, update_task once with a status in the payload
\* and once with a title only.  Payloads are well-formed (title, note and
\* summary present).
Endpoints ==
    {"create_task", "get_task", "update_task_status", "update_task_title",
     "start_iteration", "add_note", "set_summary", "complete_iteration"}

\* the outcome of the core call the endpoint makes; update_task with a
\* status calls set_task_status first, and the metadata part after it
CoreOutcome(endpoint, p, t, status) ==
    CASE endpoint = "create_task" -> create_task_raises(p)
      [] endpoint = "get_task" -> get_task_details_raises(p, t)
      [] endpoint = "update_task_status" -> set_task_status_raises(p, t, status)
      [] endpoint = "update_task_title" -> update_task_raises(p, t)
      [] endpoint = "start_iteration" -> start_task_raises(p, t)
      [] endpoint = "add_note" -> add_iteration_note_raises(p, t)
      [] endpoint = "set_summary" -> set_iteration_summary_raises(p, t)
      [] endpoint = "complete_iteration" -> complete_iteration_raises(p, t)

\* except TaskManagerError catches the base class and its three subclasses
IsTaskManagerError(err) ==
    err \in {"TaskManagerError", "ProjectNotFound", "TaskNotFound",
             "IterationNotFound"}

\* the status code of the response: that of the HTTPException the handler's
\* except clause raises, 500 for an exception no clause catches, else 200
HTTPStatus(endpoint, p, t, status) ==
    LET err == CoreOutcome(endpoint, p, t, status).err
        lookup == err \in {"ProjectNotFound", "TaskNotFound"}
    IN  CASE endpoint \in {"create_task", "update_task_status", "start_iteration",
                           "add_note", "set_summary", "complete_iteration"} ->
                IF IsTaskManagerError(err) THEN 400 ELSE 200
          [] endpoint \in {"get_task", "update_task_title"} ->
                IF lookup THEN 404 ELSE IF err # "ok" THEN 500 ELSE 200

\* ---------------------------------------------------------------- RPC layer
\* What MCPServer.handle sends once the manager calls of the request have
\* returned: the reply to the requester and whether mcp.taskUpdated is
\* broadcast after it.  The result of updateTask is get_task_details, whose
\* "current_iteration" is the Iteration object when the task has one;
\* json.dumps raises TypeError on it, the handler answers "Internal error"
\* and never reaches the broadcast.  (A manager call that raises is answered
\* with error -32000 and has written nothing.)
mcp_reply(method, p, t) ==
    IF method = "mcp.updateTask" /\ get_current_iteration(p, t) # None
    THEN [kind |-> "error", code |-> -32001, taskUpdated |-> FALSE]
    ELSE [kind |-> "result", code |-> 0, taskUpdated |-> TRUE]

\* ------------------------------------------------------------- broadcast
\* The server runs on one event loop: the code between two awaits is one
\* step, and while broadcast is suspended in "await ws.send" the handle
\* coroutines of the sockets run.
\* handler[ws]: "new" before handle(ws) starts, "open" after it appended ws,
\* "lost" once the peer is gone and handle has not reached its finally,
\* "finished" after the finally.

\* list.remove(ws): drops the first occurrence; ValueError is caught
ListRemove(list, ws) ==
    IF \A k \in 1..Len(list) : list[k] # ws THEN list
    ELSE LET k == CHOOSE j \in 1..Len(list) :
                      list[j] = ws /\ \A h \in 1..(j - 1) : list[h] # ws
         IN  SubSeq(list, 1, k - 1) \o SubSeq(list, k + 1, Len(list))

\* for ws in dead: self.connections.remove(ws)
RECURSIVE RemoveDead(_, _)
RemoveDead(list, dead) ==
    IF dead = <<>> THEN list
    ELSE RemoveDead(ListRemove(list, Head(dead)), Tail(dead))

\* handle(ws) starts: self.connections.append(ws)
handle_connect(ws) ==
    /\ handler[ws] = "new"
    /\ connections' = Append(connections, ws)
    /\ handler' = [handler EXCEPT ![ws] = "open"]
    /\ UNCHANGED <<files, now, allocated, starts, ops, codec, threads, skeleton, bcast>>

\* the peer of ws goes away
connection_lost(ws) ==
    /\ handler[ws] = "open"
    /\ handler' = [handler EXCEPT ![ws] = "lost"]
    /\ UNCHANGED <<files, now, allocated, starts, ops, codec, threads,
                   skeleton, connections, bcast>>

\* "async for raw in ws" ends; finally: self.connections.remove(ws)
handle_finally(ws) ==
    /\ handler[ws] = "lost"
    /\ connections' = ListRemove(connections, ws)
    /\ handler' = [handler EXCEPT ![ws] = "finished"]
    /\ UNCHANGED <<files, now, allocated, starts, ops, codec, threads, skeleton, bcast>>

\* ws.send raises on a connection that is closed
send_raises(ws) == handler[ws] # "open"

\* the list iterator's next() and the call of ws.send on the item it yields
broadcast_iterate(b) ==
    [b EXCEPT !.pc = "send", !.i = @ + 1, !.ws = connections[b.i + 1],
              !.tried = @ \cup {connections[b.i + 1]}]

\* broadcast(message) up to its first await; returns at once when the list
\* is empty
broadcast_call ==
    /\ bcast.pc \in {"idle", "returned"}
    /\ bcast' = IF connections = <<>>
                THEN [NoBroadcast EXCEPT !.pc = "returned"]
                ELSE broadcast_iterate(
                         [NoBroadcast EXCEPT !.before = Range(connections)])
    /\ UNCHANGED <<files, now, allocated, starts, ops, codec, threads,
                   skeleton, connections, handler>>

\* the send returns or raises; then the next item, or, the iterator being
\* exhausted, the removal of the dead sockets and the return
broadcast_resume ==
    /\ bcast.pc = "send"
    /\ LET b == IF send_raises(bcast.ws)
                THEN [bcast EXCEPT !.dead = Append(@, bcast.ws),
                                   !.failed = @ \cup {bcast.ws}]
                ELSE [bcast EXCEPT !.succeeded = @ \cup {bcast.ws}]
       IN  IF b.i < Len(connections)
           THEN /\ bcast' = broadcast_iterate(b)
                /\ UNCHANGED connections
           ELSE /\ bcast' = [b EXCEPT !.pc = "returned"]
                /\ connections' = RemoveDead(connections, b.dead)
    /\ UNCHANGED <<files, now, allocated, starts, ops, codec, threads, skeleton, handler>>

\* ---- one call at a time, and a process killed inside create_task
\* no request thread is inside create_task
Quiet == \A r \in Threads : pc[r] \in {"idle", "returned", "killed"}

\* a call of create_task that begins when no other call is running
create_task_begin(r, p, title) ==
    /\ Quiet
    /\ create_task_get_project(r, p, title)

\* the thread has answered its request and takes the next one
create_task_return(r) ==
    /\ pc[r] = "returned"
    /\ pc' = [pc EXCEPT ![r] = "idle"]
    /\ frame' = [frame EXCEPT ![r] = <<>>]
    /\ UNCHANGED <<files, now, allocated, starts, ops, codec, sockets, skeleton>>

\* the call is interrupted where it stands: what it has written stays, the
\* rest of it never runs
create_task_killed(r) ==
    /\ pc[r] \in {"get_next_task_id", "json.dump", "save_task"}
    /\ pc' = [pc EXCEPT ![r] = "killed"]
    /\ UNCHANGED <<files, now, allocated, starts, ops, codec, sockets, skeleton, frame>>

\* ---- start_task as the steps of one request thread r: each read and each
\* write of a file, and the listing of the directory, is one step.  No step
\* of another call reads a file between the truncation and the dump of a
\* write here, so a write is taken as one step.
\* done : the threads whose start_task on the same task had written its
\*        iteration file when this one listed the directory
\* last : whether another call's iteration file of the same number was
\*        there when this one wrote its own
start_task_get_task(r, p, t) ==
    /\ Called
    /\ pc[r] = "idle"
    /\ start_task_raises(p, t).err = "ok"
    /\ frame' = [frame EXCEPT ![r] = [project_name |-> p, task_id |-> t,
                                     task |-> load_task(p, t)[1],
                                     iteration_num |-> 0, iteration |-> <<>>,
                                     done |-> {}, last |-> FALSE]]
    /\ pc' = [pc EXCEPT ![r] = IF load_task(p, t)[1].status = "TODO"
                               THEN "start_work"
                               ELSE "get_next_iteration_number"]
    /\ ops' = ops + 1
    /\ UNCHANGED <<files, now, allocated, starts, codec, sockets, skeleton>>

\* task.start_work(); self.storage.save_task(task)
start_task_start_work(r) ==
    /\ pc[r] = "start_work"
    /\ frame' = [frame EXCEPT ![r].task = start_work(@)]
    /\ \E dir \in save_task(tasks[frame[r].project_name], start_work(frame[r].task)) :
          tasks' = [tasks EXCEPT ![frame[r].project_name] = dir]
    /\ pc' = [pc EXCEPT ![r] = "get_next_iteration_number"]
    /\ UNCHANGED <<projects, iters, now, allocated, starts, ops, codec, sockets, skeleton>>

\* iteration_num = get_next_iteration_number(...); iteration = Iteration(...)
start_task_next_number(r) ==
    /\ pc[r] = "get_next_iteration_number"
    /\ LET p == frame[r].project_name
           t == frame[r].task_id
           num == get_next_iteration_number(p, t)
       IN  /\ num <= MaxIter
           /\ frame' = [frame EXCEPT
                 ![r].iteration_num = num,
                 ![r].iteration = <<Iteration(t, num)>>,
                 ![r].done = {q \in Threads \ {r} :
                                 /\ pc[q] = "returned"
                                 /\ frame[q].project_name = p
                                 /\ frame[q].task_id = t}]
    /\ pc' = [pc EXCEPT ![r] = "save_task"]
    /\ UNCHANGED <<files, now, allocated, starts, ops, codec, sockets, skeleton>>

\* the counters are set on the task this call loaded, which is written back
start_task_save_task(r) ==
    /\ pc[r] = "save_task"
    /\ LET p == frame[r].project_name
           task == [frame[r].task EXCEPT
                       !.current_iteration = frame[r].iteration_num,
                       !.total_iterations = Max2(@, frame[r].iteration_num)]
       IN  /\ frame' = [frame EXCEPT ![r].task = task]
           /\ \E dir \in save_task(tasks[p], task) :
                 tasks' = [tasks EXCEPT ![p] = dir]
    /\ pc' = [pc EXCEPT ![r] = "save_iteration"]
    /\ UNCHANGED <<projects, iters, now, allocated, starts, ops, codec, sockets, skeleton>>

start_task_save_iteration_exclusive(r) ==
    /\ pc[r] = "save_iteration"
    /\ LET p == frame[r].project_name
           it == frame[r].iteration[1]
           there == \E f \in iters[p] : f.name = IterFileName(it)
       IN  /\ iters' = [iters EXCEPT
                          ![p] = IF there THEN @ ELSE save_iteration(@, it)]
           /\ starts' = [starts EXCEPT ![p][frame[r].task_id] = @ + 1]
           /\ frame' = [frame EXCEPT ![r].last = there]
    /\ pc' = [pc EXCEPT ![r] = "returned"]
    /\ UNCHANGED <<projects, tasks, now, allocated, ops, codec, sockets, skeleton>>

\* self.storage.save_iteration(iteration, project_name); return iteration
start_task_save_iteration(r) ==
    /\ pc[r] = "save_iteration"
    /\ LET p == frame[r].project_name
           it == frame[r].iteration[1]
           there == \E f \in iters[p] : f.name = IterFileName(it)
       IN  /\ iters' = [iters EXCEPT ![p] = save_iteration(@, it)]
           /\ starts' = [starts EXCEPT ![p][frame[r].task_id] = @ + 1]
           /\ frame' = [frame EXCEPT ![r].last = there]
    /\ pc' = [pc EXCEPT ![r] = "returned"]
    /\ UNCHANGED <<projects, tasks, now, allocated, ops, codec, sockets, skeleton>>

\* ------------------------------------------------------------ properties
Id001 == <<0, 0, 1>>
Id002 == <<0, 0, 2>>

\* i written with three decimal digits
ZeroPad3(i) == <<(i \div 100) % 10, (i \div 10) % 10, i % 10>>

\* The iteration-editing operations, with the operations that create and
\* remove what they edit.
NextIter ==
    \/ \E p \in CreateNames : create_project(p)
    \/ \E p \in ProjectNames, title \in CreateTitles : create_task(p, title)
    \/ \E p \in ProjectNames, t \in TaskIds : set_task_status(p, t, "IN_PROGRESS")
    \/ \E p \in ProjectNames, t \in TaskIds : start_task(p, t)
    \/ \E p \in ProjectNames, t \in TaskIds, note \in NoteTexts :
            add_iteration_note(p, t, note)
    \/ \E p \in ProjectNames, t \in TaskIds, text \in FieldTexts :
            set_iteration_summary(p, t, text)
    \/ \E p \in ProjectNames, t \in TaskIds, text \in FieldTexts :
            add_user_feedback(p, t, text)
    \/ \E p \in ProjectNames, t \in TaskIds, text \in FieldTexts :
            set_next_steps(p, t, text)
    \/ \E p \in ProjectNames, t \in TaskIds : complete_iteration(p, t)
    \/ \E p \in ProjectNames, t \in TaskIds : _delete_task(p, t)

SpecIter == Init /\ [][NextIter]_vars

\* the task a caller sees under id t, and whether there is one
HasTask(p, t) == load_task(p, t) # <<>>
TaskOf(p, t) == load_task(p, t)[1]
Counter(p) == projects[p][1].completed_tasks

\* C1: the i-th create_task call on a project returns i zero-padded to three
\* digits, whatever deletions and other operations come between, and no id is
\* returned twice.
C1_IdsAllocatedInOrder ==
    \A p \in ProjectNames :
        /\ \A i \in 1..Len(allocated[p]) : allocated[p][i] = ZeroPad3(i)
        /\ \A i, j \in 1..Len(allocated[p]) :
                i # j => allocated[p][i] # allocated[p][j]

\* two ids were returned, the task that held the first is deleted
C1_Witness ==
    /\ Len(allocated["p1"]) = 2
    /\ ~HasTask("p1", Id001)
    /\ HasTask("p1", Id002)

\* C2 (as claimed): two complete_task calls in a row on an existing task add
\* exactly 1 to completed_tasks in total (nothing when the task was already
\* DONE): the call that follows a complete_task call does not count again.
C2_SecondCompleteDoesNotCount ==
    [][\A p \in ProjectNames, t \in TaskIds :
        (complete_task_raises(p, t).err = "ok" /\ complete_task(p, t))
        => /\ Counter(p)' - Counter(p) = (IF TaskOf(p, t).status = "DONE" THEN 0 ELSE 1)
           /\ ~(complete_task_counts(p, t))']_vars

\* C3 (as claimed): in every step, completed_tasks grows by the number of
\* tasks whose persisted status went from a non-DONE value to DONE.
C3_CounterCountsDoneTransitions ==
    [][\A p \in ProjectNames :
        (project_exists(p) /\ project_exists(p)')
        => Counter(p)' - Counter(p) =
              Cardinality({t \in TaskIds :
                  /\ HasTask(p, t) /\ HasTask(p, t)'
                  /\ TaskOf(p, t).status # "DONE"
                  /\ TaskOf(p, t)'.status = "DONE"})]_vars

\* C4 (as claimed): once a task's started timestamp is non-null, no
\* operation writes it again.
C4_StartedWrittenOnce ==
    [][\A p \in ProjectNames, t \in TaskIds :
        (HasTask(p, t) /\ HasTask(p, t)' /\ TaskOf(p, t).started # None)
        => TaskOf(p, t)'.started = TaskOf(p, t).started]_vars

\* C5 (as claimed): once a task's completed timestamp is non-null, no
\* operation writes it again.
C5_CompletedWrittenOnce ==
    [][\A p \in ProjectNames, t \in TaskIds :
        (HasTask(p, t) /\ HasTask(p, t)' /\ TaskOf(p, t).completed # None)
        => TaskOf(p, t)'.completed = TaskOf(p, t).completed]_vars

\* C6: set_task_status(IN_PROGRESS) on a TODO task leaves it IN_PROGRESS with
\* started set, stamping started when it was null; the same call made again,
\* on the task as the first call left it (IN_PROGRESS, started set), leaves
\* every persisted file as it was, at whatever later time it is made.
C6_SetInProgressTwice ==
    [][\A p \in ProjectNames, t \in TaskIds :
        (set_task_status_raises(p, t, "IN_PROGRESS").err = "ok"
            /\ set_task_status(p, t, "IN_PROGRESS"))
        => /\ TaskOf(p, t).status = "TODO"
                => /\ TaskOf(p, t)'.status = "IN_PROGRESS"
                   /\ TaskOf(p, t)'.started =
                        (IF TaskOf(p, t).started = None
                         THEN <<now>> ELSE TaskOf(p, t).started)
           /\ (TaskOf(p, t).status = "IN_PROGRESS" /\ TaskOf(p, t).started # None)
                => files' = files]_vars

\* the task as a first call left it, at a later second than its stamp
C6_Witness ==
    \E t \in TaskIds :
        /\ HasTask("p1", t)
        /\ TaskOf("p1", t).status = "IN_PROGRESS"
        /\ TaskOf("p1", t).started = <<1>>
        /\ TaskOf("p1", t).completed = None
        /\ list_iterations("p1", t) = {}
        /\ now = 2

\* a task nothing has been done to since create_task
Fresh(p, t) ==
    /\ TaskOf(p, t).status = "TODO"
    /\ TaskOf(p, t).started = None
    /\ TaskOf(p, t).completed = None
    /\ {f \in iters[p] : f.name[1] = t} = {}

\* the task start_task leaves when called on a fresh task
StartedOnce(p, t) ==
    /\ TaskOf(p, t).status = "IN_PROGRESS"
    /\ TaskOf(p, t).started # None
    /\ TaskOf(p, t).completed = None
    /\ {f.data.iteration : f \in {g \in iters[p] : g.name[1] = t}} = {1}
    /\ \A f \in {g \in iters[p] : g.name[1] = t} : f.data.status = "in_progress"

\* the task complete_task leaves when called next
CompletedOnce(p, t) ==
    /\ TaskOf(p, t).status = "DONE"
    /\ TaskOf(p, t).completed # None
    /\ {f.data.iteration : f \in {g \in iters[p] : g.name[1] = t}} = {1}
    /\ \A f \in {g \in iters[p] : g.name[1] = t} :
            f.data.status = "completed" /\ f.data.completed # None

\* C7: create_task leaves the new task fresh (TODO, started and completed
\* null); start_task on a fresh task creates iteration 1 in_progress and leaves
\* the task IN_PROGRESS with started set; complete_task called next leaves the
\* task DONE with completed set and iteration 1 completed, and adds exactly 1
\* to the project's completed_tasks.
C7_FreshTaskLifecycle ==
    [][\A p \in ProjectNames, t \in TaskIds :
        /\ (\E title \in CreateTitles :
                /\ create_task_raises(p).err = "ok"
                /\ t = ZeroPad3(projects[p][1].next_task_id)
                /\ create_task(p, title))
            => HasTask(p, t)' /\ Fresh(p, t)'
        /\ (start_task_raises(p, t).err = "ok" /\ Fresh(p, t) /\ start_task(p, t))
            => StartedOnce(p, t)'
        /\ (complete_task_raises(p, t).err = "ok" /\ StartedOnce(p, t)
                /\ complete_task(p, t))
            => CompletedOnce(p, t)' /\ Counter(p)' = Counter(p) + 1]_vars

\* the end of the lifecycle
C7_Witness ==
    \E t \in TaskIds :
        /\ HasTask("p1", t)
        /\ CompletedOnce("p1", t)
        /\ Counter("p1") = 1

LegalTaskStatus == {"TODO", "IN_PROGRESS", "DONE", "ARCHIVED"}
LegalProjectStatus == {"active", "completed", "archived"}

\* C8: on an existing task or project, a status string outside the legal set
\* makes set_task_status and set_project_status raise the generic manager error
\* carrying the legal values, and the call writes no file: no step of it exists.
C8_InvalidStatusRejected ==
    \A p \in ProjectNames :
        /\ \A t \in TaskIds, s \in TaskStatusInputs \ LegalTaskStatus :
                get_task_raises(p, t).err = "ok"
                => /\ set_task_status_raises(p, t, s).err = "TaskManagerError"
                   /\ Range(set_task_status_raises(p, t, s).detail) = LegalTaskStatus
                   /\ ~ENABLED set_task_status(p, t, s)
        /\ \A s \in ProjectStatusInputs \ LegalProjectStatus :
                projects[p] # <<>>
                => /\ set_project_status_raises(p, s).err = "TaskManagerError"
                   /\ Range(set_project_status_raises(p, s).detail) = LegalProjectStatus
                   /\ ~ENABLED set_project_status(p, s)

\* a project and a task exist, and the illegal strings are refused on both
C8_Witness ==
    \E t \in TaskIds :
        /\ HasTask("p1", t)
        /\ set_task_status_raises("p1", t, "BOGUS").err = "TaskManagerError"
        /\ set_project_status_raises("p1", "ARCHIVED").err = "TaskManagerError"

\* the operations that look the task up through get_task
LookupErrors(p, t) ==
    {get_task_raises(p, t).err, start_task_raises(p, t).err,
     complete_task_raises(p, t).err, list_iterations_raises(p, t).err,
     get_task_details_raises(p, t).err}
        \cup {set_task_status_raises(p, t, s).err : s \in TaskStatusInputs}

\* C9: when the project does not exist, get_task and the operations that look
\* the task up through it raise ProjectNotFound, never TaskNotFound, and write
\* nothing (no step of them exists); TaskNotFound is raised only when the
\* project exists and the task does not.
C9_ProjectNotFoundFirst ==
    \A p \in ProjectNames, t \in TaskIds :
        /\ projects[p] = <<>>
            => /\ LookupErrors(p, t) = {"ProjectNotFound"}
               /\ ~ENABLED (\/ get_task(p, t) \/ start_task(p, t)
                            \/ complete_task(p, t) \/ ListIterations(p, t)
                            \/ get_task_details(p, t)
                            \/ \E s \in TaskStatusInputs : set_task_status(p, t, s))
        /\ "TaskNotFound" \in LookupErrors(p, t)
            => /\ projects[p] # <<>>
               /\ \A i \in 1..Len(tasks[p]) : tasks[p][i].data.id # t

\* one project exists and lacks a task, another project does not exist
C9_Witness ==
    /\ projects["p1"] # <<>>
    /\ HasTask("p1", Id001)
    /\ get_task_raises("p1", Id002).err = "TaskNotFound"
    /\ get_task_raises("p2", Id001).err = "ProjectNotFound"

\* C10 (as claimed): after update_task changes the title of a task stored in
\* one file, the task is still stored in that one file, neither renamed nor
\* duplicated, and get_task returns the updated title.
C10_TitleUpdateKeepsOneFile ==
    [][\A p \in ProjectNames, t \in TaskIds, title \in UpdateTitles :
        (update_task_raises(p, t).err = "ok" /\ Strip(title) # <<>>
            /\ Len(GlobTask(p, t)) = 1 /\ update_task(p, t, title))
        => /\ Len(GlobTask(p, t)') = 1
           /\ GlobTask(p, t)'[1].name = GlobTask(p, t)[1].name
           /\ TaskOf(p, t)'.title = Strip(title)]_vars

\* the ids under which get_task finds a task
LiveIds(p) == {t \in TaskIds : HasTask(p, t)}

\* C11 (as claimed): list_tasks returns each live task id exactly once, no
\* other id, in ascending order, after any sequence of creations, edits,
\* status changes and deletions.
C11_ListTasksEachLiveIdOnce ==
    \A p \in ProjectNames :
        list_tasks_raises(p).err = "ok"
        => /\ Range(list_tasks(p)) = LiveIds(p)
           /\ Len(list_tasks(p)) = Cardinality(LiveIds(p))
           /\ \A i \in 1..(Len(list_tasks(p)) - 1) :
                  StrLess(list_tasks(p)[i], list_tasks(p)[i + 1])

\* the iteration files of task t
IterFiles(p, t) == {f \in iters[p] : f.name[1] = t}

\* C12: get_current_iteration returns the persisted iteration with the
\* maximum number, and nothing for a task without iterations; on a live task
\* on which k >= 1 start_task calls returned, it returns iteration k.
C12_CurrentIsLatest ==
    \A p \in ProjectNames, t \in TaskIds :
        /\ IterFiles(p, t) = {} => get_current_iteration(p, t) = <<>>
        /\ IterFiles(p, t) # {}
            => /\ get_current_iteration(p, t) # <<>>
               /\ \E f \in IterFiles(p, t) : get_current_iteration(p, t) = <<f.data>>
               /\ \A f \in IterFiles(p, t) :
                      f.data.iteration <= get_current_iteration(p, t)[1].iteration
        /\ (HasTask(p, t) /\ starts[p][t] >= 1)
            => /\ get_current_iteration(p, t) # <<>>
               /\ get_current_iteration(p, t)[1].iteration = starts[p][t]
               /\ get_current_iteration(p, t)[1].task_id = t

\* one task started twice, another never started
C12_Witness ==
    /\ HasTask("p1", Id001) /\ starts["p1"][Id001] = 2
    /\ get_current_iteration("p1", Id001)[1].iteration = 2
    /\ HasTask("p1", Id002) /\ get_current_iteration("p1", Id002) = <<>>

\* C13: on every live task the persisted iteration numbers are exactly 1..k,
\* k the number of start_task calls that returned on it; each start_task adds
\* the iteration numbered one past the maximum (1 when there is none) and
\* leaves every existing iteration file as it was.
C13_IterationNumbersContiguous ==
    /\ [](\A p \in ProjectNames, t \in TaskIds :
            HasTask(p, t) => list_iterations(p, t) = 1..starts[p][t])
    /\ [][\A p \in ProjectNames, t \in TaskIds :
            starts[p][t]' # starts[p][t]
            => /\ IterFiles(p, t) \subseteq IterFiles(p, t)'
               /\ list_iterations(p, t)' = list_iterations(p, t) \cup
                    {IF list_iterations(p, t) = {} THEN 1
                     ELSE SetMax(list_iterations(p, t)) + 1}
               /\ Cardinality(IterFiles(p, t)') = Cardinality(IterFiles(p, t)) + 1]_vars

\* two start_task calls returned on a live task, after its first iteration
\* was completed
C13_Witness ==
    /\ HasTask("p1", Id001)
    /\ starts["p1"][Id001] = 2
    /\ list_iterations("p1", Id001) = {1, 2}
    /\ \E f \in IterFiles("p1", Id001) : f.data.status = "completed"

\* C14: for a task without a persisted iteration (a TODO task, a task made
\* IN_PROGRESS by set_task_status alone, a deleted or unknown task, an unknown
\* project) the five iteration-editing operations raise IterationNotFound and
\* write nothing: no step of them exists.
C14_NoIterationNoEdit ==
    \A p \in ProjectNames, t \in TaskIds :
        IterFiles(p, t) = {}
        => /\ {add_iteration_note_raises(p, t).err,
               set_iteration_summary_raises(p, t).err,
               add_user_feedback_raises(p, t).err,
               set_next_steps_raises(p, t).err,
               complete_iteration_raises(p, t).err} = {"IterationNotFound"}
           /\ ~ENABLED (\/ \E note \in NoteTexts : add_iteration_note(p, t, note)
                        \/ \E text \in FieldTexts : set_iteration_summary(p, t, text)
                        \/ \E text \in FieldTexts : add_user_feedback(p, t, text)
                        \/ \E text \in FieldTexts : set_next_steps(p, t, text)
                        \/ complete_iteration(p, t))

\* a task made IN_PROGRESS without start_task beside a deleted task that had
\* an iteration
C14_Witness ==
    /\ HasTask("p1", Id002)
    /\ TaskOf("p1", Id002).status = "IN_PROGRESS"
    /\ IterFiles("p1", Id002) = {}
    /\ ~HasTask("p1", Id001) /\ starts["p1"][Id001] = 1
    /\ add_iteration_note_raises("p1", Id001).err = "IterationNotFound"
    /\ add_iteration_note_raises("p2", Id001).err = "IterationNotFound"

IsPrefix(a, b) == Len(a) <= Len(b) /\ SubSeq(b, 1, Len(a)) = a

\* C15: add_iteration_note(n) leaves the current iteration's notes equal to
\* the old notes, a newline and n when the old notes were non-empty, and to n
\* otherwise; in every step the notes of an iteration that persists start
\* with its old notes.
C15_NotesAppendOnly ==
    [][\A p \in ProjectNames, t \in TaskIds :
        /\ \A note \in NoteTexts :
                add_iteration_note(p, t, note)
                => get_current_iteration(p, t)[1].notes' =
                     (IF get_current_iteration(p, t)[1].notes = <<>> THEN note
                      ELSE get_current_iteration(p, t)[1].notes \o <<"\n">> \o note)
        /\ \A f \in IterFiles(p, t), g \in IterFiles(p, t)' :
                f.name = g.name => IsPrefix(f.data.notes, g.data.notes)]_vars

\* "x" then "y" were added to a fresh iteration
C15_Witness ==
    /\ get_current_iteration("p1", Id001) # <<>>
    /\ get_current_iteration("p1", Id001)[1].notes = <<"x", "\n", "y">>

\* C16: create_project with a name that exists raises the generic manager
\* error and writes nothing (no step of it exists): the project's metadata,
\* tasks and iterations stay as they were.
C16_CreateExistingProjectRejected ==
    \A p \in ProjectNames :
        project_exists(p)
        => /\ create_project_raises(p).err = "TaskManagerError"
           /\ ~ENABLED create_project(p)

\* an existing project that has moved on since its creation
C16_Witness ==
    /\ project_exists("p1")
    /\ projects["p1"][1].status = "archived"
    /\ projects["p1"][1].next_task_id = 2
    /\ projects["p1"][1].completed_tasks = 1
    /\ IterFiles("p1", Id001) # {}
    /\ ops < MaxOps

\* C17: create_task on a project that does not exist raises ProjectNotFound
\* and no step of it exists; on an existing project it adds exactly 1 to
\* next_task_id and to total_tasks and changes nothing else of the project,
\* and creates one task file: TODO, started and completed null, both iteration
\* counters 0, all other files unchanged.
C17_CreateTaskEffect ==
    /\ [](\A p \in ProjectNames :
            ~project_exists(p)
            => /\ create_task_raises(p).err = "ProjectNotFound"
               /\ ~ENABLED (\E title \in CreateTitles : create_task(p, title)))
    /\ [][\A p \in ProjectNames :
            allocated[p]' # allocated[p]
            => /\ project_exists(p)
               /\ projects[p]' = <<[projects[p][1] EXCEPT
                                        !.next_task_id = @ + 1,
                                        !.total_tasks = @ + 1]>>
               /\ Len(tasks[p]') = Len(tasks[p]) + 1
               /\ \A i \in 1..Len(tasks[p]) :
                      \E j \in 1..Len(tasks[p]') : tasks[p][i] = tasks[p][j]'
               /\ \A i \in 1..Len(tasks[p]') :
                      (\A j \in 1..Len(tasks[p]) : tasks[p][j] # tasks[p][i]')
                      =>
                      /\ tasks[p][i]'.data.id = Fmt03d(projects[p][1].next_task_id)
                      /\ tasks[p][i]'.data.status = "TODO"
                      /\ tasks[p][i]'.data.started = None
                      /\ tasks[p][i]'.data.completed = None
                      /\ tasks[p][i]'.data.current_iteration = 0
                      /\ tasks[p][i]'.data.total_iterations = 0
               /\ iters' = iters]_vars

\* a second task was created beside a first that has been worked on
C17_Witness ==
    /\ Len(allocated["p1"]) = 2
    /\ HasTask("p1", Id001) /\ TaskOf("p1", Id001).status = "IN_PROGRESS"
    /\ HasTask("p1", Id002) /\ TaskOf("p1", Id002).status = "TODO"
    /\ create_task_raises("p2").err = "ProjectNotFound"

\* C18: deleting a task of an existing project removes its task files and its
\* iteration files and nothing else: get_task then raises TaskNotFound, the
\* task has no iterations, and the project file and every file of every other
\* task are unchanged.
C18_DeleteRemovesOnlyTheTask ==
    [][\A p \in ProjectNames, t \in TaskIds :
        (project_exists(p) /\ _delete_task(p, t))
        => /\ get_task_raises(p, t)'.err = "TaskNotFound"
           /\ list_iterations(p, t)' = {}
           /\ projects' = projects
           /\ \A t2 \in TaskIds \ {t} :
                  /\ GlobTask(p, t2)' = GlobTask(p, t2)
                  /\ IterFiles(p, t2)' = IterFiles(p, t2)
           /\ \A q \in ProjectNames \ {p} :
                  tasks[q]' = tasks[q] /\ iters[q]' = iters[q]]_vars

\* a started task is gone with its iteration, another started task remains
C18_Witness ==
    /\ ~HasTask("p1", Id001) /\ starts["p1"][Id001] = 1
    /\ IterFiles("p1", Id001) = {}
    /\ HasTask("p1", Id002) /\ IterFiles("p1", Id002) # {}
    /\ projects["p1"][1].total_tasks = 2

\* C19 (as claimed): when complete_task returns on a task that was not DONE,
\* the task is DONE and its completed timestamp is set, whatever its status
\* was.
C19_CompleteTaskMakesDone ==
    [][\A p \in ProjectNames, t \in TaskIds :
        (complete_task_raises(p, t).err = "ok" /\ TaskOf(p, t).status # "DONE"
            /\ complete_task(p, t))
        => /\ TaskOf(p, t)'.status = "DONE"
           /\ TaskOf(p, t)'.completed # None]_vars

\* C20: set_task_status(IN_PROGRESS) on a DONE task changes the status of the
\* task and nothing else: completed stays set, started is unchanged, and the
\* project (with its completed_tasks) and the iterations are as before.
C20_ReopenChangesOnlyStatus ==
    [][\A p \in ProjectNames, t \in TaskIds :
        (get_task_raises(p, t).err = "ok" /\ TaskOf(p, t).status = "DONE"
            /\ set_task_status(p, t, "IN_PROGRESS"))
        => /\ TaskOf(p, t)' = [TaskOf(p, t) EXCEPT !.status = "IN_PROGRESS"]
           /\ TaskOf(p, t)'.completed # None
           /\ projects' = projects
           /\ iters' = iters]_vars

\* a completed and counted task was re-opened at a later second
C20_Witness ==
    \E t \in TaskIds :
        /\ HasTask("p1", t)
        /\ TaskOf("p1", t).status = "IN_PROGRESS"
        /\ TaskOf("p1", t).completed = <<1>>
        /\ Counter("p1") = 1
        /\ now = 2
\* ---- serialization round trip
\* an object of one of the three kinds is in memory, nothing serialized yet
InitCodec ==
    /\ InitStore
    /\ NoThreads
    /\ NoSockets
    /\ NoSkeleton
    /\ entity \in {[kind |-> "Task", x |-> x] : x \in TaskObjects}
               \cup {[kind |-> "Iteration", x |-> x] : x \in IterationObjects}
               \cup {[kind |-> "Project", x |-> x] : x \in ProjectObjects}
    /\ data = <<>>
    /\ restored = <<>>

UnchangedStore == UNCHANGED <<projects, tasks, iters, now, allocated, starts, ops>>

\* x.to_dict() and cls.from_dict(d) of the object's class
to_dict(e) ==
    CASE e.kind = "Task" -> Task_to_dict(e.x)
      [] e.kind = "Iteration" -> Iteration_to_dict(e.x)
      [] e.kind = "Project" -> Project_to_dict(e.x)

from_dict(kind, d) ==
    CASE kind = "Task" -> Task_from_dict(d)
      [] kind = "Iteration" -> Iteration_from_dict(d)
      [] kind = "Project" -> Project_from_dict(d)

Serialize ==
    /\ data = <<>>
    /\ data' = <<to_dict(entity)>>
    /\ UNCHANGED <<entity, restored, threads, sockets, skeleton>>
    /\ UnchangedStore

Deserialize ==
    /\ data # <<>>
    /\ restored = <<>>
    /\ restored' = <<from_dict(entity.kind, data[1])>>
    /\ UNCHANGED <<entity, data, threads, sockets, skeleton>>
    /\ UnchangedStore

NextCodec ==
    \/ Tick
    \/ Serialize
    \/ Deserialize

SpecCodec == InitCodec /\ [][NextCodec]_vars

\* C21: for every Task, Iteration and Project object, from_dict(to_dict(x))
\* equals x field for field, and the dictionary carries the status as the
\* string value of the enumeration member.
C21_RoundTrip ==
    /\ data # <<>> =>
          /\ data[1].status = entity.x.status.value
          /\ \/ entity.kind = "Task" /\ data[1].status \in {m.value : m \in TaskStatus}
             \/ entity.kind = "Iteration"
                    /\ data[1].status \in {m.value : m \in IterationStatus}
             \/ entity.kind = "Project"
                    /\ data[1].status \in {m.value : m \in ProjectStatus}
    /\ restored # <<>> => restored[1] = entity.x

\* an iteration that is completed in status but has no completed stamp,
\* restored at a later clock second than its started stamp
C21_Witness ==
    /\ restored # <<>>
    /\ now = MaxTime
    /\ entity.kind = "Iteration"
    /\ entity.x.status.name = "COMPLETED"
    /\ entity.x.completed = None
    /\ entity.x.started = Some(0)
\* ---- project existence
NextProj ==
    \/ Tick
    \/ \E p \in ProjectNames : create_project(p)
    \/ \E p \in ProjectNames : create_project_killed(p)
    \/ \E p \in ProjectNames : get_project(p)
    \/ \E p \in ProjectNames, status \in Range(ProjectStatusValues) :
          set_project_status(p, status)

SpecProj == Init /\ [][NextProj]_vars

\* C22: in every storage state project_exists(name), membership of name in
\* list_projects and load_project(name) returning a project agree, so
\* create_project(name) fails as a duplicate exactly when get_project(name)
\* succeeds.
C22_ExistenceAgrees ==
    \A p \in ProjectNames :
        /\ project_exists(p) <=> p \in list_projects
        /\ project_exists(p) <=> load_project(p) # None
        /\ create_project_raises(p).err = "TaskManagerError"
              <=> get_project_raises(p).err = "ok"
\* ---- two create_task requests at once
RaceTitles == {<<"A">>, <<"B">>}

NextRace ==
    \/ Tick
    \/ \E p \in CreateNames : create_project(p)
    \/ \E r \in Threads, p \in CreateNames, title \in RaceTitles :
          create_task_get_project(r, p, title)
    \/ \E r \in Threads : create_task_open_project(r)
    \/ \E r \in Threads : create_task_dump_project(r)
    \/ \E r \in Threads : create_task_save_task(r)

SpecRace == Init /\ [][NextRace]_vars

\* both threads loaded the same project.json content before either wrote
ReadSame(r1, r2) ==
    /\ r1 # r2
    /\ pc[r1] # "idle"
    /\ pc[r2] # "idle"
    /\ frame[r1].project_name = frame[r2].project_name
    /\ frame[r1].read = frame[r2].read

\* C23: when two create_task calls on one project both read project.json
\* before either writes it back, no step of either raises, both return, and
\* project.json ends with next_task_id and total_tasks advanced by 1, not 2;
\* both calls return the same task id.
C23_LostUpdate ==
    \A r1 \in Threads, r2 \in Threads :
        ReadSame(r1, r2) =>
            /\ pc[r1] = "get_next_task_id" => ENABLED create_task_open_project(r1)
            /\ pc[r1] = "json.dump" => ENABLED create_task_dump_project(r1)
            /\ pc[r1] = "save_task" => ENABLED create_task_save_task(r1)
            /\ (pc[r1] = "returned" /\ pc[r2] = "returned") =>
                  /\ projects[frame[r1].project_name] =
                        <<[frame[r1].read EXCEPT !.next_task_id = @ + 1,
                                                 !.total_tasks = @ + 1]>>
                  /\ frame[r1].task_id = frame[r2].task_id

\* both have returned the id 001 for tasks of different titles
C23_Witness ==
    /\ ReadSame("r1", "r2")
    /\ pc["r1"] = "returned"
    /\ pc["r2"] = "returned"
    /\ frame["r1"].title # frame["r2"].title
    /\ allocated["p1"] = <<Id001, Id001>>
    /\ Len(tasks["p1"]) = 2
\* C24: on every endpoint a ProjectNotFound, TaskNotFound or
\* IterationNotFound raised by the core is answered with status 404 and
\* every other core error with status 400.
C24_NotFoundIs404 ==
    \A endpoint \in Endpoints, p \in ProjectNames, t \in TaskIds,
       status \in TaskStatusInputs :
        LET err == CoreOutcome(endpoint, p, t, status).err
        IN  /\ err \in {"ProjectNotFound", "TaskNotFound", "IterationNotFound"}
                  => HTTPStatus(endpoint, p, t, status) = 404
            /\ err = "TaskManagerError"
                  => HTTPStatus(endpoint, p, t, status) = 400
\* the requester got a result and mcp.taskUpdated was broadcast
Answered(method, p, t) ==
    /\ mcp_reply(method, p, t).kind = "result"
    /\ mcp_reply(method, p, t).taskUpdated

\* C25: whenever the handling of createTask, updateTask, deleteTask,
\* startIteration or completeIteration changes the persisted state, the
\* requester is answered with a result and mcp.taskUpdated is broadcast,
\* for updateTask also when the task has a current iteration.
C25_MutationAnswered ==
    [][\A p \in ProjectNames, t \in TaskIds :
        /\ (files' # files /\ \E title \in CreateTitles : create_task(p, title))
              => Answered("mcp.createTask", p, t)'
        /\ (files' # files /\ \E title \in UpdateTitles : update_task(p, t, title))
              => Answered("mcp.updateTask", p, t)'
        /\ (files' # files /\ \E st \in TaskStatusInputs : set_task_status(p, t, st))
              => Answered("mcp.updateTask", p, t)'
        /\ (files' # files /\ _delete_task(p, t))
              => Answered("mcp.deleteTask", p, t)'
        /\ (files' # files /\ start_task(p, t))
              => Answered("mcp.startIteration", p, t)'
        /\ (files' # files /\ complete_iteration(p, t))
              => Answered("mcp.completeIteration", p, t)'
      ]_vars
\* ---- broadcast among connecting and disconnecting sockets
NextBroadcast ==
    \/ \E ws \in Sockets : handle_connect(ws)
    \/ \E ws \in Sockets : connection_lost(ws)
    \/ \E ws \in Sockets : handle_finally(ws)
    \/ broadcast_call
    \/ broadcast_resume

SpecBroadcast == Init /\ [][NextBroadcast]_vars

\* every socket connected at the call and now has been sent to
AllTried == \A ws \in bcast.before \cap Range(connections) : ws \in bcast.tried

\* no socket whose send failed is among the connections
FailedDropped == \A ws \in bcast.failed : ws \notin Range(connections)

\* every socket whose send succeeded is among the connections
SucceededKept == \A ws \in bcast.succeeded : ws \in Range(connections)

\* C26: at the step by which broadcast returns, every socket that was
\* connected when it was called and still is has been sent to, every socket
\* whose send failed is absent from the connections, and every socket whose
\* send succeeded is in them, whatever the handlers did while the broadcast
\* was suspended in a send.
C26_BestEffort ==
    [][(bcast.pc = "send" /\ bcast'.pc = "returned")
          => (AllTried /\ FailedDropped /\ SucceededKept)']_vars
\* ---- cleanup among complete and half-made projects
NextCleanup ==
    \/ \E p \in ProjectNames : create_project(p)
    \/ \E p \in ProjectNames : create_project_killed(p)
    \/ \E p \in ProjectNames : create_project_killed_mkdir(p)
    \/ \E p \in ProjectNames, title \in CreateTitles : create_task(p, title)
    \/ \E p \in ProjectNames, t \in TaskIds : start_task(p, t)
    \/ cleanup

SpecCleanup == Init /\ [][NextCleanup]_vars

CounterStarts == {1, 9, 99, 999}

InitIds ==
    /\ tasks = [p \in ProjectNames |-> <<>>]
    /\ iters = [p \in ProjectNames |-> {}]
    /\ now = 1
    /\ allocated = [p \in ProjectNames |-> <<>>]
    /\ starts = [p \in ProjectNames |-> [t \in TaskIds |-> 0]]
    /\ ops = 0
    /\ \E n \in CounterStarts :
          projects = [p \in ProjectNames |->
                         IF p = "p1"
                         THEN <<[Project("p1", <<>>) EXCEPT
                                    !.next_task_id = n, !.total_tasks = n - 1]>>
                         ELSE <<>>]
    /\ NoCodec
    /\ NoThreads
    /\ NoSockets
    /\ NoSkeleton

NextIds ==
    \/ Tick
    \/ \E p \in ProjectNames, title \in RaceTitles : create_task(p, title)
    \/ \E p \in ProjectNames : ListTasks(p)
    \/ \E p \in ProjectNames, n \in CounterStarts : _delete_task(p, Fmt03d(n))

SpecIds == InitIds /\ [][NextIds]_vars

\* C28: every task id is a string of exactly 3 digits, and list_tasks, which
\* sorts the ids as strings, returns them in numeric order, for every value
\* of the project's counter.
C28_IdsFixedWidth ==
    \A p \in ProjectNames :
        /\ \A i \in 1..Len(list_tasks(p)) : Len(list_tasks(p)[i]) = 3
        /\ \A i \in 1..Len(list_tasks(p)), j \in 1..Len(list_tasks(p)) :
              i < j => ParseInt(list_tasks(p)[i]) <= ParseInt(list_tasks(p)[j])

\* C29 (as claimed): when set_task_status(p, t, s) returns for a legal status
\* s, the persisted status of the task is s, whatever it was before.
C29_StatusIsSet ==
    [][\A p \in ProjectNames, t \in TaskIds, s \in Range(TaskStatusValues) :
        (set_task_status_raises(p, t, s).err = "ok" /\ set_task_status(p, t, s))
        => /\ HasTask(p, t)'
           /\ TaskOf(p, t)'.status = s]_vars

\* ---- start_task on tasks of every status
NextStart ==
    \/ Tick
    \/ \E p \in CreateNames : create_project(p)
    \/ \E p \in ProjectNames, title \in CreateTitles : create_task(p, title)
    \/ \E p \in ProjectNames, t \in TaskIds, s \in Range(TaskStatusValues) :
          set_task_status(p, t, s)
    \/ \E p \in ProjectNames, t \in TaskIds : start_task(p, t)

SpecStart == Init /\ [][NextStart]_vars

\* C30: start_task makes a TODO task IN_PROGRESS and stamps started; on a
\* task of any other status it leaves status and started as they are; it
\* never touches completed; it adds an in_progress iteration numbered one
\* past the latest, sets current_iteration to that number and
\* total_iterations to the larger of it and the old value; project.json is
\* left as it was.
C30_StartTaskEffect ==
    [][\A p \in ProjectNames, t \in TaskIds :
        starts[p][t]' # starts[p][t] =>
            LET old == TaskOf(p, t)
                new == TaskOf(p, t)'
                had == list_iterations(p, t)
                num == IF had = {} THEN 1 ELSE SetMax(had) + 1
                added == IterFiles(p, t)' \ IterFiles(p, t)
            IN  /\ old.status = "TODO" =>
                      /\ new.status = "IN_PROGRESS"
                      /\ new.started = Some(now)
                /\ old.status # "TODO" =>
                      /\ new.status = old.status
                      /\ new.started = old.started
                /\ new.completed = old.completed
                /\ IterFiles(p, t) \subseteq IterFiles(p, t)'
                /\ Cardinality(added) = 1
                /\ \A f \in added :
                      /\ f.data.iteration = num
                      /\ f.data.status = "in_progress"
                      /\ get_current_iteration(p, t)' = <<f.data>>
                /\ new.current_iteration = num
                /\ new.total_iterations = Max2(old.total_iterations, num)
                /\ projects' = projects]_vars

\* start_task has run twice on a task archived before it was ever started
C30_Witness ==
    /\ HasTask("p1", Id001)
    /\ TaskOf("p1", Id001).status = "ARCHIVED"
    /\ TaskOf("p1", Id001).started = None
    /\ TaskOf("p1", Id001).current_iteration = 2
    /\ starts["p1"][Id001] = 2

\* C31: set_task_status with target TODO or ARCHIVED assigns the status and
\* does nothing else: started, completed, current_iteration and
\* total_iterations of the task stay as they were (as do its other fields),
\* no iteration file changes and project.json with its counters is as before.
C31_DirectAssignment ==
    [][\A p \in ProjectNames, t \in TaskIds, s \in {"TODO", "ARCHIVED"} :
        set_task_status(p, t, s) =>
            LET old == TaskOf(p, t)
                new == TaskOf(p, t)'
            IN  /\ new.status = s
                /\ new.started = old.started
                /\ new.completed = old.completed
                /\ new.current_iteration = old.current_iteration
                /\ new.total_iterations = old.total_iterations
                /\ new = [old EXCEPT !.status = s]
                /\ Len(tasks[p]') = Len(tasks[p])
                /\ iters' = iters
                /\ projects' = projects]_vars

\* a task that was started with one iteration and completed is TODO again,
\* still carrying both stamps and its iteration
C31_Witness ==
    /\ HasTask("p1", Id001)
    /\ TaskOf("p1", Id001).status = "TODO"
    /\ TaskOf("p1", Id001).started # None
    /\ TaskOf("p1", Id001).completed # None
    /\ TaskOf("p1", Id001).current_iteration = 1
    /\ IterFiles("p1", Id001) # {}
    /\ Counter("p1") = 1

\* the iteration files of p after the latest iteration of t was written back
\* completed at the current second
LatestCompleted(p, t) ==
    LET cur == get_current_iteration(p, t)[1]
        name == <<t, Fmt03d(SetMax(list_iterations(p, t)))>>
    IN  {f \in iters[p] : f.name # name}
            \cup {[name |-> name,
                   data |-> [cur EXCEPT !.status = "completed",
                                        !.completed = Some(now)]]}

\* C32: complete_iteration writes the latest iteration back as completed with
\* the completed stamp of the current second whatever its status was, also
\* when it was completed before; complete_task does the same only when the
\* latest iteration is not completed and otherwise leaves every iteration file
\* (and so the earlier completed stamp) as it was; neither changes an
\* iteration other than the highest-numbered one.
C32_CompleteIterationRestamps ==
    [][\A p \in ProjectNames, t \in TaskIds :
        /\ complete_iteration(p, t) =>
              /\ iters[p]' = LatestCompleted(p, t)
              /\ \A q \in ProjectNames \ {p} : iters[q]' = iters[q]
        /\ complete_task(p, t) =>
              IF get_current_iteration(p, t) # None
                    /\ get_current_iteration(p, t)[1].status # "completed"
              THEN /\ iters[p]' = LatestCompleted(p, t)
                   /\ \A q \in ProjectNames \ {p} : iters[q]' = iters[q]
              ELSE iters' = iters]_vars

\* the second iteration of a task carries a completed stamp later than the
\* one of the task it belongs to, next to a first iteration left in progress
\* (as when complete_task completes both at second 1 and complete_iteration
\* stamps the iteration again at second 2)
C32_Witness ==
    /\ HasTask("p1", Id001)
    /\ TaskOf("p1", Id001).status = "DONE"
    /\ TaskOf("p1", Id001).completed = Some(1)
    /\ \E f, g \in IterFiles("p1", Id001) :
          /\ f.data.iteration = 1
          /\ f.data.status = "in_progress"
          /\ g.data.iteration = 2
          /\ g.data.status = "completed"
          /\ g.data.completed = Some(2)

\* the iteration files of p with the data of the latest iteration of t
\* replaced by it
WithLatest(p, t, it) ==
    LET name == <<t, Fmt03d(SetMax(list_iterations(p, t)))>>
    IN  {f \in iters[p] : f.name # name} \cup {[name |-> name, data |-> it]}

\* the latest iteration of t as stored
Latest(p, t) ==
    (CHOOSE f \in iters[p] :
        f.name = <<t, Fmt03d(SetMax(list_iterations(p, t)))>>).data

\* C33: add_iteration_note, set_iteration_summary, add_user_feedback and
\* set_next_steps each write back the highest-numbered iteration of the task
\* with one field changed (notes, summary, user_feedback, next_steps): status,
\* started, completed and the other fields are as before, every other
\* iteration file, the task files and project.json are unchanged, and
\* summary, user_feedback and next_steps hold exactly the text passed in.
C33_OneFieldOfLatest ==
    [][\A p \in ProjectNames, t \in TaskIds :
        /\ \A note \in NoteTexts :
              add_iteration_note(p, t, note) =>
                  /\ \E notes \in {Latest(p, t).notes' } :
                        iters[p]' = WithLatest(p, t, [Latest(p, t) EXCEPT !.notes = notes])
                  /\ tasks' = tasks /\ projects' = projects
                  /\ \A q \in ProjectNames \ {p} : iters[q]' = iters[q]
        /\ \A text \in FieldTexts :
              /\ set_iteration_summary(p, t, text) =>
                  /\ iters[p]' = WithLatest(p, t, [Latest(p, t) EXCEPT !.summary = text])
                  /\ tasks' = tasks /\ projects' = projects
                  /\ \A q \in ProjectNames \ {p} : iters[q]' = iters[q]
              /\ add_user_feedback(p, t, text) =>
                  /\ iters[p]' = WithLatest(p, t, [Latest(p, t) EXCEPT !.user_feedback = text])
                  /\ tasks' = tasks /\ projects' = projects
                  /\ \A q \in ProjectNames \ {p} : iters[q]' = iters[q]
              /\ set_next_steps(p, t, text) =>
                  /\ iters[p]' = WithLatest(p, t, [Latest(p, t) EXCEPT !.next_steps = text])
                  /\ tasks' = tasks /\ projects' = projects
                  /\ \A q \in ProjectNames \ {p} : iters[q]' = iters[q]]_vars

\* the second iteration of a task has a note, a summary and feedback, the
\* first one has none of them
C33_Witness ==
    \E f, g \in IterFiles("p1", Id001) :
        /\ f.data.iteration = 1
        /\ f.data.notes = <<>> /\ f.data.summary = <<>> /\ f.data.user_feedback = <<>>
        /\ g.data.iteration = 2
        /\ g.data.notes = <<"x">>
        /\ g.data.summary = <<"s">>
        /\ g.data.user_feedback = <<"s">>
        /\ g.data.status = "in_progress"

\* ---- the manager's mutating operations, in any order
ManagerNotes == {<<"x">>}

NextManager ==
    \/ Tick
    \/ \E p \in CreateNames : create_project(p)
    \/ \E p \in ProjectNames, s \in ProjectStatusInputs : set_project_status(p, s)
    \/ \E p \in ProjectNames, title \in CreateTitles : create_task(p, title)
    \/ \E p \in ProjectNames, t \in TaskIds, s \in Range(TaskStatusValues) :
          set_task_status(p, t, s)
    \/ \E p \in ProjectNames, t \in TaskIds : start_task(p, t)
    \/ \E p \in ProjectNames, t \in TaskIds : complete_task(p, t)
    \/ \E p \in ProjectNames, t \in TaskIds : complete_iteration(p, t)
    \/ \E p \in ProjectNames, t \in TaskIds, note \in ManagerNotes :
          add_iteration_note(p, t, note)
    \/ \E p \in ProjectNames, t \in TaskIds, text \in FieldTexts :
          set_iteration_summary(p, t, text)
    \/ \E p \in ProjectNames, t \in TaskIds, text \in FieldTexts :
          add_user_feedback(p, t, text)
    \/ \E p \in ProjectNames, t \in TaskIds, text \in FieldTexts :
          set_next_steps(p, t, text)

SpecManager == Init /\ [][NextManager]_vars

\* the highest iteration number among the files of task t, 0 without files
MaxPersisted(p, t) ==
    IF IterFiles(p, t) = {} THEN 0
    ELSE SetMax({f.data.iteration : f \in IterFiles(p, t)})

\* C34: between the manager's operations, the current_iteration and the
\* total_iterations stored in every task file both equal the highest number
\* among the task's iteration files (0 when it has none), and no step makes
\* the total_iterations of a task smaller.
C34_CountersFollowFiles ==
    /\ [](\A p \in ProjectNames : \A i \in 1..Len(tasks[p]) :
            LET task == tasks[p][i].data
            IN  /\ task.current_iteration = MaxPersisted(p, task.id)
                /\ task.total_iterations = MaxPersisted(p, task.id))
    /\ [][\A p \in ProjectNames : \A i \in 1..Len(tasks[p]) :
            /\ Len(tasks[p]') >= Len(tasks[p])
            /\ tasks[p][i].data.total_iterations
                  <= tasks[p]'[i].data.total_iterations]_vars

\* a task completed after its second start_task, next to one never started
C34_Witness ==
    /\ HasTask("p1", Id001) /\ HasTask("p1", Id002)
    /\ TaskOf("p1", Id001).status = "DONE"
    /\ TaskOf("p1", Id001).total_iterations = 2
    /\ MaxPersisted("p1", Id001) = 2
    /\ TaskOf("p1", Id002).total_iterations = 0
    /\ MaxPersisted("p1", Id002) = 0

\* C35: in every state the manager's operations reach, total_tasks of a
\* project is next_task_id - 1; no step makes next_task_id, total_tasks or
\* completed_tasks smaller; and a step that is not a create_task on the
\* project (set_project_status, any other task or iteration operation)
\* leaves its next_task_id and total_tasks as they were.
C35_ProjectCountersMonotone ==
    /\ [](\A p \in ProjectNames :
            projects[p] # <<>> =>
                projects[p][1].total_tasks = projects[p][1].next_task_id - 1)
    /\ [][\A p \in ProjectNames :
            projects[p] # <<>> =>
                LET old == projects[p][1]
                    new == projects[p]'[1]
                IN  /\ projects[p]' # <<>>
                    /\ new.next_task_id >= old.next_task_id
                    /\ new.total_tasks >= old.total_tasks
                    /\ new.completed_tasks >= old.completed_tasks
                    /\ allocated[p]' = allocated[p] =>
                          /\ new.next_task_id = old.next_task_id
                          /\ new.total_tasks = old.total_tasks]_vars

\* a project with two tasks, one of them completed, was archived
C35_Witness ==
    /\ projects["p1"] # <<>>
    /\ projects["p1"][1].status = "archived"
    /\ projects["p1"][1].next_task_id = 3
    /\ projects["p1"][1].total_tasks = 2
    /\ projects["p1"][1].completed_tasks = 1
    /\ \E t \in TaskIds : HasTask("p1", t) /\ TaskOf("p1", t).status = "DONE"

\* C36: in every state the manager's operations reach, a task file with
\* status DONE has a completed stamp, one with status IN_PROGRESS has a
\* started stamp, and one with a completed stamp has a started stamp; and no
\* step removes a started stamp, so that a TODO task without one has never
\* been IN_PROGRESS.
C36_StampsFollowStatus ==
    /\ [](\A p \in ProjectNames : \A i \in 1..Len(tasks[p]) :
            LET task == tasks[p][i].data
            IN  /\ task.status = "DONE" => task.completed # None
                /\ task.status = "IN_PROGRESS" => task.started # None
                /\ task.completed # None => task.started # None)
    /\ [][\A p \in ProjectNames : \A i \in 1..Len(tasks[p]) :
            /\ Len(tasks[p]') >= Len(tasks[p])
            /\ tasks[p]'[i].data.id = tasks[p][i].data.id
            /\ tasks[p][i].data.started # None
                  => tasks[p]'[i].data.started # None]_vars

\* one task was started and completed a second later, then a second task,
\* created before, was started
C36_Witness ==
    /\ HasTask("p1", Id001) /\ HasTask("p1", Id002)
    /\ TaskOf("p1", Id001).status = "DONE"
    /\ TaskOf("p1", Id001).started = Some(1)
    /\ TaskOf("p1", Id001).completed = Some(2)
    /\ TaskOf("p1", Id002).status = "IN_PROGRESS"
    /\ TaskOf("p1", Id002).started = Some(2)

\* C37: whenever the stored status of a task is DONE, none of its iteration
\* files has status in_progress.
C37_DoneHasNoOpenIteration ==
    \A p \in ProjectNames : \A i \in 1..Len(tasks[p]) :
        tasks[p][i].data.status = "DONE" =>
            \A f \in IterFiles(p, tasks[p][i].data.id) :
                f.data.status # "in_progress"

\* ---- create_task step by step, one call at a time
NextSteps ==
    \/ \E p \in CreateNames : create_project(p)
    \/ \E r \in Threads, p \in CreateNames, title \in CreateTitles :
          create_task_begin(r, p, title)
    \/ \E r \in Threads : create_task_open_project(r)
    \/ \E r \in Threads : create_task_dump_project(r)
    \/ \E r \in Threads : create_task_save_task(r)
    \/ \E r \in Threads : create_task_return(r)
    \/ \E r \in Threads : create_task_killed(r)
    \/ \E p \in ProjectNames, s \in ProjectStatusInputs :
          Quiet /\ set_project_status(p, s)
    \/ \E p \in ProjectNames, t \in TaskIds : Quiet /\ _delete_task(p, t)

SpecSteps == Init /\ [][NextSteps]_vars

\* the ids of the task files of p, as numbers
PersistedIds(p) == {ParseInt(tasks[p][i].data.id) : i \in 1..Len(tasks[p])}

\* C38: create_task writes project.json with the advanced counter before it
\* writes the task file.  So at every point of every call, also inside
\* create_task and after an interruption anywhere in it, every id of a task
\* file is below the next_task_id that project.json holds (while project.json
\* is open for rewriting it holds no counter, and no id can be allocated); an
\* interruption may leave an id without a task file, and the id a call
\* allocates is never the id of a task file that exists or that any earlier
\* call returned.
C38_CounterAheadOfFiles ==
    /\ [](\A p \in ProjectNames :
            load_project(p) # None =>
                \A n \in PersistedIds(p) : n < load_project(p)[1].next_task_id)
    /\ [][\A r \in Threads :
            (pc[r] = "get_next_task_id" /\ pc[r]' = "json.dump") =>
                LET p == frame[r].project_name
                    id == frame[r]'.task_id
                IN  /\ ParseInt(id) \notin PersistedIds(p)
                    /\ \A i \in 1..Len(allocated[p]) : allocated[p][i] # id]_vars

\* a call killed between its two writes left id 001 without a task file; the
\* next call was given 002 and wrote its task
C38_Witness ==
    /\ pc["r1"] = "killed"
    /\ frame["r1"].task_id = Id001
    /\ pc["r2"] = "returned"
    /\ frame["r2"].task_id = Id002
    /\ PersistedIds("p1") = {2}
    /\ projects["p1"][1].next_task_id = 3

\* ---- two start_task calls on request threads, after calls that ran one at
\* a time before either began
NextStartRace ==
    \/ Tick
    \/ \E p \in CreateNames : NoThreads /\ create_project(p)
    \/ \E p \in ProjectNames, title \in CreateTitles : NoThreads /\ create_task(p, title)
    \/ \E p \in ProjectNames, t \in TaskIds : NoThreads /\ start_task(p, t)
    \/ \E r \in Threads, p \in ProjectNames, t \in TaskIds :
          start_task_get_task(r, p, t)
    \/ \E r \in Threads : start_task_start_work(r)
    \/ \E r \in Threads : start_task_next_number(r)
    \/ \E r \in Threads : start_task_save_task(r)
    \/ \E r \in Threads : start_task_save_iteration(r)

SpecStartRace == Init /\ [][NextStartRace]_vars

\* both calls are on the same task and each listed the iteration files
\* before the other wrote its own
Interleaved(r1, r2) ==
    /\ r1 # r2
    /\ pc[r1] \in {"save_task", "save_iteration", "returned"}
    /\ pc[r2] \in {"save_task", "save_iteration", "returned"}
    /\ frame[r1].project_name = frame[r2].project_name
    /\ frame[r1].task_id = frame[r2].task_id
    /\ r2 \notin frame[r1].done
    /\ r1 \notin frame[r2].done

\* C39: when two start_task calls on one task each compute the next
\* iteration number before the other has written its iteration file, both
\* hold the same number, no remaining step of either raises, and once both
\* have returned there is one iteration file of that number, holding the
\* iteration of the call that wrote last, and the task file's
\* current_iteration is that number.
C39_StartTaskRace ==
    \A r1 \in Threads, r2 \in Threads :
        Interleaved(r1, r2) =>
            /\ frame[r1].iteration_num = frame[r2].iteration_num
            /\ pc[r1] = "save_task" => ENABLED start_task_save_task(r1)
            /\ pc[r1] = "save_iteration" => ENABLED start_task_save_iteration(r1)
            /\ (pc[r1] = "returned" /\ pc[r2] = "returned") =>
                  LET p == frame[r1].project_name
                      t == frame[r1].task_id
                      num == frame[r1].iteration_num
                      hits == {f \in iters[p] : /\ f.data.task_id = t
                                                /\ f.data.iteration = num}
                  IN  /\ Cardinality(hits) = 1
                      /\ frame[r1].last # frame[r2].last
                      /\ frame[r1].last =>
                            hits = {[name |-> <<t, Fmt03d(num)>>,
                                     data |-> frame[r1].iteration[1]]}
                      /\ load_task(p, t)[1].current_iteration = num
                      /\ list_iterations(p, t) = 1..num

\* both calls returned iteration 2 of a task that had one iteration; the
\* file holds the one stamped at second 2, the other was stamped at second 1
C39_Witness ==
    /\ Interleaved("r1", "r2")
    /\ pc["r1"] = "returned"
    /\ pc["r2"] = "returned"
    /\ frame["r1"].iteration_num = 2
    /\ frame["r1"].iteration[1].started = Some(1)
    /\ frame["r2"].iteration[1].started = Some(2)
    /\ frame["r2"].last
    /\ get_current_iteration("p1", Id001) = frame["r2"].iteration
====
